---------------------------- MODULE Spec2Model ----------------------------
(***************************************************************************)
(* Shadow tree differentiator of ReactCommon/fabric/mounting:              *)
(* sliceChildShadowNodeViewPairs, reorderInPlaceIfNeeded, TinyMap and the  *)
(* recursive calculateShadowViewMutations, together with a host view tree  *)
(* that consumes the emitted mutation list in list order.                  *)
(***************************************************************************)
EXTENDS Integers, Sequences, FiniteSets, TLC

VARIABLES
    oldRootShadowNode,  \* the old tree handed to calculateShadowViewMutations
    newRootShadowNode,  \* the new tree handed to calculateShadowViewMutations
    mutations,          \* the returned ShadowViewMutation::List
    pc,                 \* "diff": not yet diffed; "mount": list returned; "failed"
    applied,            \* how many mutations of the list the host has applied
    host,               \* the host view tree: a set of [tag, shadowView, children]
    slicedShadowNode,   \* the node handed to sliceChildShadowNodeViewPairs
    slicedPairList,     \* the ShadowViewNodePair::List it returned
    sliced,             \* whether it has returned
    registry,           \* ShadowTreeRegistry::registry_: surfaceId -> tree
    mutex,              \* ShadowTreeRegistry::mutex_: its holders
    call,               \* per thread: the registry call it is in
    nextTree,           \* the id of the next ShadowTree constructed
    added,              \* per surfaceId: add not followed by remove
    link,               \* SurfaceHandler::link_
    parameters,         \* SurfaceHandler::parameters_
    linkMutex,          \* SurfaceHandler::linkMutex_: its holders
    parametersMutex,    \* SurfaceHandler::parametersMutex_: its holders
    surfaceCall,        \* per thread: the SurfaceHandler call it is in
    callCount,          \* per thread: the calls it has made
    outcome,            \* "alive", "destroyed", or "fatal" after a violation
    tinyMap,            \* TinyMap::vector_ of one TinyMap
    live,               \* per key: the value inserted and not erased, or 0
    everInserted,       \* the keys insert was called with
    found,              \* the last find: its key and the iterator returned
    walk                \* an iteration from begin(): iterator, entries visited

diffVars ==
    <<oldRootShadowNode, newRootShadowNode, mutations, pc, applied, host>>
sliceVars == <<slicedShadowNode, slicedPairList, sliced>>
registryVars == <<registry, mutex, call, nextTree, added>>
handlerVars ==
    <<link, parameters, linkMutex, parametersMutex, surfaceCall, callCount,
      outcome>>
tinyMapVars == <<tinyMap, live, everInserted, found, walk>>
vars == <<diffVars, sliceVars, registryVars, handlerVars, tinyMapVars>>

-----------------------------------------------------------------------------
(* Bounds of the explored inputs. *)

\* Tags are 1..MaxTag; tag 1 is the root of both trees.
MaxTag == 4
\* props take the values 0..MaxProps.
MaxProps == 1
\* orderIndex takes the values 0..MaxOrderIndex.
MaxOrderIndex == 1

RootTag == 1

-----------------------------------------------------------------------------
(* ShadowNode, ShadowView, ShadowViewNodePair. *)

\* A ShadowNode is a record
\*   [tag, props, orderIndex, formsView, formsStackingContext, origin, children]
\* with children a sequence of ShadowNodes (shadowNode.getChildren()).

\* ShadowView(shadowNode): the value projected from a node.  componentName,
\* state and eventEmitter never differ between the nodes explored here.
ShadowView(shadowNode) ==
    [tag |-> shadowNode.tag, props |-> shadowNode.props,
     origin |-> shadowNode.origin]

\* ShadowView(): the default-constructed view, tag 0.
EmptyShadowView == [tag |-> 0, props |-> 0, origin |-> 0]

\* {shadowView, &childShadowNode}: the node is kept by value, trees being
\* immutable while a diff runs.
ShadowViewNodePair(shadowView, shadowNode) ==
    [shadowView |-> shadowView, shadowNode |-> shadowNode]

\* ShadowViewNodePair equality: lhs.view == rhs.view, node identity ignored.
ShadowViewNodePairEq(lhs, rhs) == lhs.shadowView = rhs.shadowView

-----------------------------------------------------------------------------
(* sliceChildShadowNodeViewPairs *)

RECURSIVE sliceChildShadowNodeViewPairsRecursively(_, _, _)
RECURSIVE SliceChildrenFrom(_, _, _, _)

\* Mutant of SliceChildrenFrom: the FormsView check made before the
\* FormsStackingContext check, so a stacking context that forms no view is
\* walked through instead of pushed.
SliceChildrenFromViewFirst(pairList, layoutOffset, children, k) ==
    IF k > Len(children) THEN pairList
    ELSE
      LET childShadowNode == children[k]
          shadowView == [ShadowView(childShadowNode) EXCEPT
                            !.origin = @ + layoutOffset]
          pair == ShadowViewNodePair(shadowView, childShadowNode)
          after ==
            IF childShadowNode.formsStackingContext
                 /\ childShadowNode.formsView
              THEN Append(pairList, pair)
              ELSE sliceChildShadowNodeViewPairsRecursively(
                     IF childShadowNode.formsView
                       THEN Append(pairList, pair) ELSE pairList,
                     shadowView.origin, childShadowNode)
      IN SliceChildrenFrom(after, layoutOffset, children, k + 1)

\* Mutant of SliceChildrenFrom: the recursion is given the child's own
\* origin, without the running offset.
SliceChildrenFromOwnOrigin(pairList, layoutOffset, children, k) ==
    IF k > Len(children) THEN pairList
    ELSE
      LET childShadowNode == children[k]
          shadowView == [ShadowView(childShadowNode) EXCEPT
                            !.origin = @ + layoutOffset]
          pair == ShadowViewNodePair(shadowView, childShadowNode)
          after ==
            IF childShadowNode.formsStackingContext
              THEN Append(pairList, pair)
              ELSE sliceChildShadowNodeViewPairsRecursively(
                     IF childShadowNode.formsView
                       THEN Append(pairList, pair) ELSE pairList,
                     childShadowNode.origin, childShadowNode)
      IN SliceChildrenFrom(after, layoutOffset, children, k + 1)

\* The body of the for loop over shadowNode.getChildren(), from child k on.
SliceChildrenFrom(pairList, layoutOffset, children, k) ==
    IF k > Len(children) THEN pairList
    ELSE
      LET childShadowNode == children[k]
          shadowView == [ShadowView(childShadowNode) EXCEPT
                            !.origin = @ + layoutOffset]
          pair == ShadowViewNodePair(shadowView, childShadowNode)
          after ==
            IF childShadowNode.formsStackingContext
              THEN Append(pairList, pair)
              ELSE sliceChildShadowNodeViewPairsRecursively(
                     IF childShadowNode.formsView
                       THEN Append(pairList, pair) ELSE pairList,
                     shadowView.origin, childShadowNode)
      IN SliceChildrenFrom(after, layoutOffset, children, k + 1)

sliceChildShadowNodeViewPairsRecursively(pairList, layoutOffset, shadowNode) ==
    SliceChildrenFrom(pairList, layoutOffset, shadowNode.children, 1)

sliceChildShadowNodeViewPairs(shadowNode) ==
    IF ~shadowNode.formsStackingContext /\ shadowNode.formsView
      THEN <<>>
      ELSE sliceChildShadowNodeViewPairsRecursively(<<>>, 0, shadowNode)

-----------------------------------------------------------------------------
(* reorderInPlaceIfNeeded *)

shouldFirstPairComesBeforeSecondOne(lhs, rhs) ==
    lhs.shadowNode.orderIndex < rhs.shadowNode.orderIndex

\* std::stable_sort: the sorted permutation that keeps the relative order of
\* elements neither of which comes before the other (insertion from the
\* left, each element put after every element it does not come before).
RECURSIVE StableInsert(_, _)
StableInsert(sorted, pair) ==
    IF Len(sorted) = 0 THEN <<pair>>
    ELSE IF shouldFirstPairComesBeforeSecondOne(pair, sorted[Len(sorted)])
      THEN Append(StableInsert(SubSeq(sorted, 1, Len(sorted) - 1), pair),
                  sorted[Len(sorted)])
      ELSE Append(sorted, pair)

RECURSIVE StableSort(_, _)
StableSort(pairs, k) ==
    IF k = 0 THEN <<>> ELSE StableInsert(StableSort(pairs, k - 1), pairs[k])

\* Mutant of reorderInPlaceIfNeeded: the sort puts an element before the
\* elements of the same orderIndex that precede it.
reorderInPlaceUnstable(pairs) ==
    IF Len(pairs) < 2 THEN pairs
    ELSE IF \A k \in 1..Len(pairs) : pairs[k].shadowNode.orderIndex = 0
      THEN pairs
      ELSE StableSort([k \in 1..Len(pairs) |-> pairs[Len(pairs) + 1 - k]],
                      Len(pairs))

reorderInPlaceIfNeeded(pairs) ==
    IF Len(pairs) < 2 THEN pairs
    ELSE IF \A k \in 1..Len(pairs) : pairs[k].shadowNode.orderIndex = 0
      THEN pairs
      ELSE StableSort(pairs, Len(pairs))

-----------------------------------------------------------------------------
(* TinyMap<Tag, ShadowViewNodePair const *>: a vector of (first, second).   *)
(* A pointer into newChildPairs is the index of the element it points to.   *)

TinyMapEmpty == <<>>

\* end(): the null iterator.
TinyMapEnd == 0

\* begin(): (Pair *)vector_, read as the pointer to the first item; on an
\* empty vector it points where the first item would be.
TinyMapBegin(vector) == 1

\* find(key): the position of the first item whose first equals key, or end().
TinyMapFind(vector, key) ==
    IF \E k \in 1..Len(vector) : vector[k].first = key
      THEN CHOOSE k \in 1..Len(vector) :
             /\ vector[k].first = key
             /\ \A j \in 1..(k - 1) : vector[j].first # key
      ELSE TinyMapEnd

\* insert(pair): push_back.
TinyMapInsert(vector, first, second) ==
    Append(vector, [first |-> first, second |-> second])

\* Mutant of TinyMapErase: the zero is written to the value, not the key.
TinyMapEraseSecond(vector, iterator) ==
    [vector EXCEPT ![iterator].second = 0]

\* erase(iterator): iterator->first = 0.
TinyMapErase(vector, iterator) == [vector EXCEPT ![iterator].first = 0]

-----------------------------------------------------------------------------
(* ShadowViewMutation: the five variants. *)

CreateMutation(shadowView) ==
    [type |-> "Create", newChildShadowView |-> shadowView]

DeleteMutation(shadowView) ==
    [type |-> "Delete", oldChildShadowView |-> shadowView]

InsertMutation(parentShadowView, childShadowView, index) ==
    [type |-> "Insert", parentShadowView |-> parentShadowView,
     newChildShadowView |-> childShadowView, index |-> index]

RemoveMutation(parentShadowView, childShadowView, index) ==
    [type |-> "Remove", parentShadowView |-> parentShadowView,
     oldChildShadowView |-> childShadowView, index |-> index]

UpdateMutation(parentShadowView, oldChildShadowView, newChildShadowView, index) ==
    [type |-> "Update", parentShadowView |-> parentShadowView,
     oldChildShadowView |-> oldChildShadowView,
     newChildShadowView |-> newChildShadowView, index |-> index]

-----------------------------------------------------------------------------
(* calculateShadowViewMutations, the recursive driver.                      *)
(* Indices are the C++ ones (from 0); element index of a list l is          *)
(* l[index + 1].  The driver's value is the block it appends to the         *)
(* caller's `mutations`.                                                    *)

\* The locals of one call: the seven mutation lists, insertedPairs, index.
DriverLocals ==
    [createMutations |-> <<>>, deleteMutations |-> <<>>,
     insertMutations |-> <<>>, removeMutations |-> <<>>,
     updateMutations |-> <<>>, downwardMutations |-> <<>>,
     destructiveDownwardMutations |-> <<>>,
     insertedPairs |-> TinyMapEmpty, index |-> 0]

RECURSIVE calculateShadowViewMutations(_, _, _)
RECURSIVE Stage1(_, _, _, _)
RECURSIVE Stage2(_, _, _)
RECURSIVE Stage3(_, _, _, _)
RECURSIVE Stage4(_, _, _)

\* The list a recursion on (oldGrandChildPairs, newGrandChildPairs) writes
\* to: downwardMutations when newGrandChildPairs.size() is not 0.
AppendToTarget(locals, newGrandChildPairs, block) ==
    IF Len(newGrandChildPairs) # 0
      THEN [locals EXCEPT !.downwardMutations = @ \o block]
      ELSE [locals EXCEPT !.destructiveDownwardMutations = @ \o block]

\* Mutant of Stage1Update: old and new view passed in the wrong order.
Stage1UpdateSwapped(locals, parentShadowView, oldChildPair, newChildPair) ==
    IF oldChildPair.shadowView # newChildPair.shadowView
      THEN [locals EXCEPT !.updateMutations =
              Append(@, UpdateMutation(parentShadowView,
                                       newChildPair.shadowView,
                                       oldChildPair.shadowView,
                                       locals.index))]
      ELSE locals

\* Mutant of Stage1Update: the comparison of the two views left out.
Stage1UpdateAlways(locals, parentShadowView, oldChildPair, newChildPair) ==
    [locals EXCEPT !.updateMutations =
       Append(@, UpdateMutation(parentShadowView, oldChildPair.shadowView,
                                newChildPair.shadowView, locals.index))]

\* Stage 1, the `Update` of one aligned pair.
Stage1Update(locals, parentShadowView, oldChildPair, newChildPair) ==
    IF oldChildPair.shadowView # newChildPair.shadowView
      THEN [locals EXCEPT !.updateMutations =
              Append(@, UpdateMutation(parentShadowView,
                                       oldChildPair.shadowView,
                                       newChildPair.shadowView,
                                       locals.index))]
      ELSE locals

\* Stage 1, the recursion on one aligned pair.
Stage1Recurse(locals, oldChildPair, newChildPair) ==
    LET oldGrandChildPairs ==
          sliceChildShadowNodeViewPairs(oldChildPair.shadowNode)
        newGrandChildPairs ==
          sliceChildShadowNodeViewPairs(newChildPair.shadowNode)
    IN AppendToTarget(locals, newGrandChildPairs,
         calculateShadowViewMutations(oldChildPair.shadowView,
                                      oldGrandChildPairs, newGrandChildPairs))

\* Mutant of Stage1: `continue` in place of `break` on two different tags.
Stage1NoBreak(locals, parentShadowView, oldChildPairs, newChildPairs) ==
    LET index == locals.index IN
    IF ~(index < Len(oldChildPairs) /\ index < Len(newChildPairs))
      THEN locals
    ELSE
      LET oldChildPair == oldChildPairs[index + 1]
          newChildPair == newChildPairs[index + 1]
      IN IF oldChildPair.shadowView.tag # newChildPair.shadowView.tag
           THEN Stage1([locals EXCEPT !.index = index + 1],
                       parentShadowView, oldChildPairs, newChildPairs)
           ELSE Stage1(
                  [Stage1Recurse(
                     Stage1Update(locals, parentShadowView,
                                  oldChildPair, newChildPair),
                     oldChildPair, newChildPair)
                   EXCEPT !.index = index + 1],
                  parentShadowView, oldChildPairs, newChildPairs)

\* Stage 1: Collecting `Update` mutations.
Stage1(locals, parentShadowView, oldChildPairs, newChildPairs) ==
    LET index == locals.index IN
    IF ~(index < Len(oldChildPairs) /\ index < Len(newChildPairs))
      THEN locals
    ELSE
      LET oldChildPair == oldChildPairs[index + 1]
          newChildPair == newChildPairs[index + 1]
      IN IF oldChildPair.shadowView.tag # newChildPair.shadowView.tag
           THEN locals
           ELSE Stage1(
                  [Stage1Recurse(
                     Stage1Update(locals, parentShadowView,
                                  oldChildPair, newChildPair),
                     oldChildPair, newChildPair)
                   EXCEPT !.index = index + 1],
                  parentShadowView, oldChildPairs, newChildPairs)

\* Mutant of Stage2: the inserted pair is not recorded in insertedPairs.
Stage2NoInsertedPairs(locals, parentShadowView, newChildPairs) ==
    LET index == locals.index IN
    IF ~(index < Len(newChildPairs)) THEN locals
    ELSE
      LET newChildPair == newChildPairs[index + 1] IN
      Stage2([locals EXCEPT
                !.insertMutations =
                   Append(@, InsertMutation(parentShadowView,
                                            newChildPair.shadowView, index)),
                !.index = index + 1],
             parentShadowView, newChildPairs)

\* Stage 2: Collecting `Insert` mutations.
Stage2(locals, parentShadowView, newChildPairs) ==
    LET index == locals.index IN
    IF ~(index < Len(newChildPairs)) THEN locals
    ELSE
      LET newChildPair == newChildPairs[index + 1] IN
      Stage2([locals EXCEPT
                !.insertMutations =
                   Append(@, InsertMutation(parentShadowView,
                                            newChildPair.shadowView, index)),
                !.insertedPairs =
                   TinyMapInsert(@, newChildPair.shadowView.tag, index + 1),
                !.index = index + 1],
             parentShadowView, newChildPairs)

\* Mutant of Stage3NotReinserted: the cleanup of the subtree is appended to
\* downwardMutations.
Stage3NotReinsertedDownward(locals, oldChildPair) ==
    [locals EXCEPT
       !.deleteMutations = Append(@, DeleteMutation(oldChildPair.shadowView)),
       !.downwardMutations =
          @ \o calculateShadowViewMutations(
                 oldChildPair.shadowView,
                 sliceChildShadowNodeViewPairs(oldChildPair.shadowNode),
                 <<>>)]

\* Stage 3, the old view was *not* (re)inserted.
Stage3NotReinserted(locals, oldChildPair) ==
    [locals EXCEPT
       !.deleteMutations = Append(@, DeleteMutation(oldChildPair.shadowView)),
       !.destructiveDownwardMutations =
          @ \o calculateShadowViewMutations(
                 oldChildPair.shadowView,
                 sliceChildShadowNodeViewPairs(oldChildPair.shadowNode),
                 <<>>)]

\* Mutant of Stage3Reinserted: the entry is not erased from insertedPairs.
Stage3ReinsertedNoErase(locals, oldChildPair, newChildPairs, it) ==
    LET newChildPair == newChildPairs[locals.insertedPairs[it].second]
    IN IF ~ShadowViewNodePairEq(newChildPair, oldChildPair)
         THEN
           LET oldGrandChildPairs ==
                 sliceChildShadowNodeViewPairs(oldChildPair.shadowNode)
               newGrandChildPairs ==
                 sliceChildShadowNodeViewPairs(newChildPair.shadowNode)
           IN AppendToTarget(locals, newGrandChildPairs,
                calculateShadowViewMutations(newChildPair.shadowView,
                                             oldGrandChildPairs,
                                             newGrandChildPairs))
         ELSE locals

\* Mutant of Stage3Reinserted: the recursion does not depend on the two
\* pairs being different.
Stage3ReinsertedAlwaysRecurse(locals, oldChildPair, newChildPairs, it) ==
    LET newChildPair == newChildPairs[locals.insertedPairs[it].second]
        oldGrandChildPairs ==
          sliceChildShadowNodeViewPairs(oldChildPair.shadowNode)
        newGrandChildPairs ==
          sliceChildShadowNodeViewPairs(newChildPair.shadowNode)
        recursed ==
          AppendToTarget(locals, newGrandChildPairs,
            calculateShadowViewMutations(newChildPair.shadowView,
                                         oldGrandChildPairs,
                                         newGrandChildPairs))
    IN [recursed EXCEPT !.insertedPairs = TinyMapErase(@, it)]

\* Stage 3, the old view *was* (re)inserted; it is the iterator find returned.
Stage3Reinserted(locals, oldChildPair, newChildPairs, it) ==
    LET newChildPair == newChildPairs[locals.insertedPairs[it].second]
        recursed ==
          IF ~ShadowViewNodePairEq(newChildPair, oldChildPair)
            THEN
              LET oldGrandChildPairs ==
                    sliceChildShadowNodeViewPairs(oldChildPair.shadowNode)
                  newGrandChildPairs ==
                    sliceChildShadowNodeViewPairs(newChildPair.shadowNode)
              IN AppendToTarget(locals, newGrandChildPairs,
                   calculateShadowViewMutations(newChildPair.shadowView,
                                                oldGrandChildPairs,
                                                newGrandChildPairs))
            ELSE locals
    IN [recursed EXCEPT !.insertedPairs = TinyMapErase(@, it)]

\* Stage 3: Collecting `Delete` and `Remove` mutations.
Stage3(locals, parentShadowView, oldChildPairs, newChildPairs) ==
    LET index == locals.index IN
    IF ~(index < Len(oldChildPairs)) THEN locals
    ELSE
      LET oldChildPair == oldChildPairs[index + 1]
          removed ==
            [locals EXCEPT !.removeMutations =
               Append(@, RemoveMutation(parentShadowView,
                                        oldChildPair.shadowView, index))]
          it == TinyMapFind(removed.insertedPairs, oldChildPair.shadowView.tag)
          handled ==
            IF it = TinyMapEnd
              THEN Stage3NotReinserted(removed, oldChildPair)
              ELSE Stage3Reinserted(removed, oldChildPair, newChildPairs, it)
      IN Stage3([handled EXCEPT !.index = index + 1],
                parentShadowView, oldChildPairs, newChildPairs)

\* Mutant of Stage4Create: the subtree is created, the view itself is not.
Stage4CreateDropped(locals, newChildPair) ==
    [locals EXCEPT
       !.downwardMutations =
          @ \o calculateShadowViewMutations(
                 newChildPair.shadowView,
                 <<>>,
                 sliceChildShadowNodeViewPairs(newChildPair.shadowNode))]

\* Stage 4, the `Create` of one new pair still in insertedPairs.
Stage4Create(locals, newChildPair) ==
    [locals EXCEPT
       !.createMutations = Append(@, CreateMutation(newChildPair.shadowView)),
       !.downwardMutations =
          @ \o calculateShadowViewMutations(
                 newChildPair.shadowView,
                 <<>>,
                 sliceChildShadowNodeViewPairs(newChildPair.shadowNode))]

\* Stage 4: Collecting `Create` mutations.
Stage4(locals, parentShadowView, newChildPairs) ==
    LET index == locals.index IN
    IF ~(index < Len(newChildPairs)) THEN locals
    ELSE
      LET newChildPair == newChildPairs[index + 1]
          handled ==
            IF TinyMapFind(locals.insertedPairs, newChildPair.shadowView.tag)
                 = TinyMapEnd
              THEN locals
              ELSE Stage4Create(locals, newChildPair)
      IN Stage4([handled EXCEPT !.index = index + 1],
                parentShadowView, newChildPairs)

\* l.rbegin() .. l.rend()
Reversed(l) == [k \in 1..Len(l) |-> l[Len(l) + 1 - k]]

\* Mutant of Flush: removeMutations moved from begin() to end().
FlushRemovesForward(locals) ==
    locals.destructiveDownwardMutations
      \o locals.updateMutations
      \o locals.removeMutations
      \o locals.deleteMutations
      \o locals.createMutations
      \o locals.downwardMutations
      \o locals.insertMutations

\* Mutant of Flush: deleteMutations moved before removeMutations.
FlushDeleteBeforeRemove(locals) ==
    locals.destructiveDownwardMutations
      \o locals.updateMutations
      \o locals.deleteMutations
      \o Reversed(locals.removeMutations)
      \o locals.createMutations
      \o locals.downwardMutations
      \o locals.insertMutations

\* Mutant of Flush: createMutations moved last.
FlushCreateLast(locals) ==
    locals.destructiveDownwardMutations
      \o locals.updateMutations
      \o Reversed(locals.removeMutations)
      \o locals.deleteMutations
      \o locals.downwardMutations
      \o locals.insertMutations
      \o locals.createMutations

\* All mutations in an optimal order.
Flush(locals) ==
    locals.destructiveDownwardMutations
      \o locals.updateMutations
      \o Reversed(locals.removeMutations)
      \o locals.deleteMutations
      \o locals.createMutations
      \o locals.downwardMutations
      \o locals.insertMutations

calculateShadowViewMutations(parentShadowView, oldChildPairs0, newChildPairs0) ==
    IF Len(oldChildPairs0) = 0 /\ Len(newChildPairs0) = 0 THEN <<>>
    ELSE
      LET oldChildPairs == reorderInPlaceIfNeeded(oldChildPairs0)
          newChildPairs == reorderInPlaceIfNeeded(newChildPairs0)
          stage1 == Stage1(DriverLocals, parentShadowView,
                           oldChildPairs, newChildPairs)
          lastIndexAfterFirstStage == stage1.index
          stage2 == Stage2(stage1, parentShadowView, newChildPairs)
          stage3 == Stage3([stage2 EXCEPT !.index = lastIndexAfterFirstStage],
                           parentShadowView, oldChildPairs, newChildPairs)
          stage4 == Stage4([stage3 EXCEPT !.index = lastIndexAfterFirstStage],
                           parentShadowView, newChildPairs)
      IN Flush(stage4)

\* Root shadow nodes must be belong the same family.
sameFamily(lhs, rhs) == lhs.tag = rhs.tag

\* The `Update` of the root, when the two root views differ.
RootUpdate(oldRootShadowView, newRootShadowView) ==
    IF oldRootShadowView # newRootShadowView
      THEN <<UpdateMutation(EmptyShadowView, oldRootShadowView,
                            newRootShadowView, -1)>>
      ELSE <<>>

\* Mutant of calculateShadowViewMutationsRoots: the root `Update` pushed
\* after the children's mutations.
calculateShadowViewMutationsRootsUpdateLast(oldRoot, newRoot) ==
    calculateShadowViewMutations(
        ShadowView(oldRoot),
        sliceChildShadowNodeViewPairs(oldRoot),
        sliceChildShadowNodeViewPairs(newRoot))
      \o RootUpdate(ShadowView(oldRoot), ShadowView(newRoot))

\* calculateShadowViewMutations(oldRootShadowNode, newRootShadowNode)
calculateShadowViewMutationsRoots(oldRoot, newRoot) ==
    RootUpdate(ShadowView(oldRoot), ShadowView(newRoot))
      \o calculateShadowViewMutations(
           ShadowView(oldRoot),
           sliceChildShadowNodeViewPairs(oldRoot),
           sliceChildShadowNodeViewPairs(newRoot))

-----------------------------------------------------------------------------
(* The host view tree, consumer of the mutation list.                       *)
(* A host is a set of entries [tag, shadowView, children], one per view     *)
(* that exists, children being the tags of its child views in order.        *)

\* The flattened projection of a tree: one entry per effective parent and
\* per pair of its (reordered) child layer.
RECURSIVE HostOfPairs(_, _)
HostOfPairs(parentShadowView, childPairs) ==
    LET pairs == reorderInPlaceIfNeeded(childPairs) IN
    {[tag |-> parentShadowView.tag, shadowView |-> parentShadowView,
      children |-> [k \in 1..Len(pairs) |-> pairs[k].shadowView.tag]]}
    \cup UNION {HostOfPairs(pairs[k].shadowView,
                            sliceChildShadowNodeViewPairs(pairs[k].shadowNode))
                : k \in 1..Len(pairs)}

FlattenedProjection(rootShadowNode) ==
    HostOfPairs(ShadowView(rootShadowNode),
                sliceChildShadowNodeViewPairs(rootShadowNode))

HostTags(h) == {e.tag : e \in h}
HostEntry(h, tag) == CHOOSE e \in h : e.tag = tag
HostChildren(h, tag) == HostEntry(h, tag).children

InsertAt(seq, index, x) ==
    SubSeq(seq, 1, index) \o <<x>> \o SubSeq(seq, index + 1, Len(seq))
RemoveAt(seq, index) ==
    SubSeq(seq, 1, index) \o SubSeq(seq, index + 2, Len(seq))

\* The tags a mutation names exist (Create: does not exist yet).  The root
\* Update names no parent: its parent is the empty view, tag 0.
NamesLiveTags(h, m) ==
    CASE m.type = "Create" -> m.newChildShadowView.tag \notin HostTags(h)
      [] m.type = "Delete" -> m.oldChildShadowView.tag \in HostTags(h)
      [] m.type = "Insert" -> /\ m.parentShadowView.tag \in HostTags(h)
                              /\ m.newChildShadowView.tag \in HostTags(h)
      [] m.type = "Remove" -> /\ m.parentShadowView.tag \in HostTags(h)
                              /\ m.oldChildShadowView.tag \in HostTags(h)
      [] m.type = "Update" ->
           /\ m.oldChildShadowView.tag \in HostTags(h)
           /\ IF m.parentShadowView = EmptyShadowView
                THEN TRUE
                ELSE m.parentShadowView.tag \in HostTags(h)

\* The index a mutation carries is a position of the parent's child list:
\* of an existing child for Remove and Update, of a child or one past the
\* last child for Insert.
IndexInRange(h, m) ==
    CASE m.type \in {"Create", "Delete"} -> TRUE
      [] m.type = "Insert" ->
           /\ 0 <= m.index
           /\ m.index <= Len(HostChildren(h, m.parentShadowView.tag))
      [] m.type = "Remove" ->
           /\ 0 <= m.index
           /\ m.index < Len(HostChildren(h, m.parentShadowView.tag))
      [] m.type = "Update" ->
           IF m.parentShadowView = EmptyShadowView
             THEN m.index = -1
             ELSE /\ 0 <= m.index
                  /\ m.index < Len(HostChildren(h, m.parentShadowView.tag))

\* A Remove or Update finds the child it names at its index.
ChildAtIndex(h, m) ==
    CASE m.type \in {"Create", "Delete", "Insert"} -> TRUE
      [] m.type \in {"Remove", "Update"} ->
           IF m.parentShadowView = EmptyShadowView
             THEN TRUE
             ELSE HostChildren(h, m.parentShadowView.tag)[m.index + 1]
                    = m.oldChildShadowView.tag

Applicable(h, m) ==
    NamesLiveTags(h, m) /\ IndexInRange(h, m) /\ ChildAtIndex(h, m)

HostCreate(h, m) ==
    h \cup {[tag |-> m.newChildShadowView.tag,
             shadowView |-> m.newChildShadowView, children |-> <<>>]}

HostDelete(h, m) == {e \in h : e.tag # m.oldChildShadowView.tag}

\* The inserted child takes the view the mutation carries.
HostInsert(h, m) ==
    {IF e.tag = m.parentShadowView.tag
       THEN [e EXCEPT !.children =
               InsertAt(@, m.index, m.newChildShadowView.tag)]
       ELSE IF e.tag = m.newChildShadowView.tag
         THEN [e EXCEPT !.shadowView = m.newChildShadowView]
         ELSE e : e \in h}

HostRemove(h, m) ==
    {IF e.tag = m.parentShadowView.tag
       THEN [e EXCEPT !.children = RemoveAt(@, m.index)]
       ELSE e : e \in h}

HostUpdate(h, m) ==
    {IF e.tag = m.oldChildShadowView.tag
       THEN [e EXCEPT !.shadowView = m.newChildShadowView]
       ELSE e : e \in h}

-----------------------------------------------------------------------------
(* The trees explored. *)

Node(tag, attrs, children) ==
    [tag |-> tag, props |-> attrs.props, orderIndex |-> attrs.orderIndex,
     formsView |-> attrs.formsView,
     formsStackingContext |-> attrs.formsStackingContext,
     origin |-> attrs.origin, children |-> children]

\* Node attributes: props x orderIndex x traits x frame origin.
Attrs(propsSet, orderSet, traitSet, originSet) ==
    {[props |-> p, orderIndex |-> o, formsView |-> t[1],
      formsStackingContext |-> t[2], origin |-> g]
       : p \in propsSet, o \in orderSet, t \in traitSet, g \in originSet}

StackingView == <<TRUE, TRUE>>
FlattenedView == <<TRUE, FALSE>>
NoView == <<FALSE, FALSE>>
StackingNoView == <<FALSE, TRUE>>

PlainAttrs == Attrs({0}, {0}, {StackingView}, {0})

\* The forests whose nodes carry exactly the tags of S, each once, with
\* attributes from A.  `canonical`: only the forests whose tags ascend in
\* depth-first order (one forest per shape; tags are opaque identities).
RECURSIVE Forests(_, _, _)
Forests(S, A, canonical) ==
    IF S = {} THEN {<<>>}
    ELSE
      LET min == CHOOSE t \in S : \A u \in S : t <= u
          firsts == IF canonical THEN {min} ELSE S
          kidSets(t) == IF canonical
                          THEN {{x \in S \ {t} : x <= m} : m \in S}
                          ELSE SUBSET (S \ {t})
          from(t, K) ==
            {<<Node(t, a, kids)>> \o rest :
                a \in A,
                kids \in Forests(K, A, canonical),
                rest \in Forests(S \ ({t} \cup K), A, canonical)}
      IN UNION {UNION {from(t, K) : K \in kidSets(t)} : t \in firsts}

\* The trees rooted at RootTag whose other nodes carry tags of 2..last.
Trees(last, A, rootAttrs, canonical) ==
    LET tagSets == IF canonical THEN {2..m : m \in 1..last}
                                ELSE SUBSET (2..last)
    IN {Node(RootTag, ra, kids) :
          ra \in rootAttrs,
          kids \in UNION {Forests(S, A, canonical) : S \in tagSets}}

\* Structure: plain stacking views in every shape and order of the tags
\* 2..MaxTag; the old tree's tags ascend in depth-first order.
StructureOld == Trees(MaxTag, PlainAttrs, PlainAttrs, TRUE)
StructureNew == Trees(MaxTag, PlainAttrs, PlainAttrs, FALSE)

\* Props: every node of the new tree, the root included, may change props.
PropsAttrs == Attrs(0..MaxProps, {0}, {StackingView}, {0})
PropsOld == Trees(MaxTag - 1, PlainAttrs, PlainAttrs, TRUE)
PropsNew == Trees(MaxTag - 1, PropsAttrs, PropsAttrs, FALSE)

\* Flattening: every node forms a stacking context, only a view, or no view;
\* every frame origin is 1, so that promoted children carry an offset.
FlatAttrs == Attrs({0}, {0}, {StackingView, FlattenedView, NoView}, {1})
FlatOld == Trees(MaxTag - 1, FlatAttrs, PlainAttrs, TRUE)
FlatNew == Trees(MaxTag - 1, FlatAttrs, PlainAttrs, TRUE)

\* Flattening of reordered children: stacking views and nodes without view.
FlatReorderAttrs == Attrs({0}, {0}, {StackingView, NoView}, {1})
FlatReorderOld == Trees(MaxTag - 1, FlatReorderAttrs, PlainAttrs, TRUE)
FlatReorderNew == Trees(MaxTag - 1, FlatReorderAttrs, PlainAttrs, FALSE)

\* Order: every node carries an orderIndex.
OrderAttrs == Attrs({0}, 0..MaxOrderIndex, {StackingView}, {0})
OrderOld == Trees(MaxTag - 1, OrderAttrs, PlainAttrs, TRUE)
OrderNew == Trees(MaxTag - 1, OrderAttrs, PlainAttrs, TRUE)

\* Siblings: one list of children under the root; the new list holds any
\* of the tags 2..MaxTag in any order, each with props of its own.
RECURSIVE Siblings(_, _)
Siblings(S, A) ==
    IF S = {} THEN {<<>>}
    ELSE UNION {{<<Node(t, a, <<>>)>> \o rest :
                   a \in A, rest \in Siblings(S \ {t}, A)} : t \in S}
SiblingsOld ==
    {Node(RootTag, ra, [k \in 1..m |-> Node(k + 1, ra, <<>>)]) :
       ra \in PlainAttrs, m \in 0..(MaxTag - 1)}
SiblingsNew ==
    {Node(RootTag, ra, kids) :
       ra \in PlainAttrs,
       kids \in UNION {Siblings(S, PropsAttrs) : S \in SUBSET (2..MaxTag)}}

\* Ordered siblings: one list of children under the root, tags ascending in
\* source order, each child with an orderIndex of its own.
OrderSiblings ==
    {Node(RootTag, ra, [k \in 1..m |-> Node(k + 1, f[k], <<>>)]) :
       ra \in PlainAttrs,
       m \in 0..(MaxTag - 1),
       f \in [1..(MaxTag - 1) -> OrderAttrs]}

-----------------------------------------------------------------------------
(* The state machine: one diff of (old, new), then the host mounting the    *)
(* list one mutation at a time.                                             *)

\* No call of the slicer on its own is in progress.
SliceIdle ==
    slicedShadowNode = <<>> /\ slicedPairList = <<>> /\ sliced = FALSE

\* No thread is calling the registry.
RegistryIdle ==
    /\ registry = <<>>
    /\ mutex = <<>>
    /\ call = <<>>
    /\ nextTree = 0
    /\ added = <<>>

\* No SurfaceHandler is in use.
HandlerIdle ==
    /\ link = <<>>
    /\ parameters = <<>>
    /\ linkMutex = <<>>
    /\ parametersMutex = <<>>
    /\ surfaceCall = <<>>
    /\ callCount = <<>>
    /\ outcome = "none"

\* No TinyMap is in use.
TinyMapIdle ==
    /\ tinyMap = <<>>
    /\ live = <<>>
    /\ everInserted = {}
    /\ found = <<>>
    /\ walk = <<>>

otherThanDiffVars == <<sliceVars, registryVars, handlerVars, tinyMapVars>>
OtherThanDiffIdle == SliceIdle /\ RegistryIdle /\ HandlerIdle /\ TinyMapIdle

InitPair(olds, news) ==
    /\ oldRootShadowNode \in olds
    /\ newRootShadowNode \in news
    /\ sameFamily(oldRootShadowNode, newRootShadowNode)

Init ==
    /\ \/ InitPair(StructureOld, StructureNew)
       \/ InitPair(PropsOld, PropsNew)
       \/ InitPair(FlatOld, FlatNew)
       \/ InitPair(FlatReorderOld, FlatReorderNew)
       \/ InitPair(OrderOld, OrderNew)
       \/ InitPair(SiblingsOld, SiblingsNew)
       \/ InitPair(OrderSiblings, OrderSiblings)
    /\ mutations = <<>>
    /\ pc = "diff"
    /\ applied = 0
    /\ host = FlattenedProjection(oldRootShadowNode)
    /\ OtherThanDiffIdle

\* calculateShadowViewMutations(oldRootShadowNode, newRootShadowNode)
CalculateMutations ==
    /\ pc = "diff"
    /\ mutations' = calculateShadowViewMutationsRoots(oldRootShadowNode,
                                                      newRootShadowNode)
    /\ pc' = "mount"
    /\ UNCHANGED <<oldRootShadowNode, newRootShadowNode, applied, host>>
    /\ UNCHANGED otherThanDiffVars

Mounting == pc = "mount" /\ applied < Len(mutations)
Mounted == pc = "mount" /\ applied = Len(mutations)
NextMutation == mutations[applied + 1]

Mount(type, hostAfter) ==
    /\ Mounting
    /\ NextMutation.type = type
    /\ Applicable(host, NextMutation)
    /\ host' = hostAfter
    /\ applied' = applied + 1
    /\ UNCHANGED <<oldRootShadowNode, newRootShadowNode, mutations, pc>>
    /\ UNCHANGED otherThanDiffVars

MountCreate == Mount("Create", HostCreate(host, NextMutation))
MountDelete == Mount("Delete", HostDelete(host, NextMutation))
MountInsert == Mount("Insert", HostInsert(host, NextMutation))
MountRemove == Mount("Remove", HostRemove(host, NextMutation))
MountUpdate == Mount("Update", HostUpdate(host, NextMutation))

\* The host cannot apply the next mutation.
MountFail ==
    /\ Mounting
    /\ ~Applicable(host, NextMutation)
    /\ pc' = "failed"
    /\ UNCHANGED <<oldRootShadowNode, newRootShadowNode, mutations, applied,
                   host>>
    /\ UNCHANGED otherThanDiffVars

Next ==
    \/ CalculateMutations
    \/ MountCreate
    \/ MountDelete
    \/ MountInsert
    \/ MountRemove
    \/ MountUpdate
    \/ MountFail

Spec == Init /\ [][Next]_vars

\* The diff of a tree with itself: every node carries an orderIndex and
\* forms a stacking context, only a view, or no view.
IdentityAttrs ==
    Attrs({0}, 0..MaxOrderIndex, {StackingView, FlattenedView, NoView}, {1})
IdentityRootAttrs == Attrs({0}, {0}, {StackingView, NoView}, {0})
IdentityTrees == Trees(MaxTag, IdentityAttrs, IdentityRootAttrs, TRUE)

InitIdentity ==
    /\ oldRootShadowNode \in IdentityTrees
    /\ newRootShadowNode = oldRootShadowNode
    /\ mutations = <<>>
    /\ pc = "diff"
    /\ applied = 0
    /\ host = FlattenedProjection(oldRootShadowNode)
    /\ OtherThanDiffIdle

NextIdentity == CalculateMutations

SpecIdentity == InitIdentity /\ [][NextIdentity]_vars

-----------------------------------------------------------------------------
(* Properties of the mutation list and of the host that mounts it. *)

Diffed == pc # "diff"
OldHost == FlattenedProjection(oldRootShadowNode)
NewHost == FlattenedProjection(newRootShadowNode)
Positions == 1..Len(mutations)
CarriesIndex(m) == m.type \in {"Insert", "Remove", "Update"}
IsRootUpdate(m) == m.type = "Update" /\ m.parentShadowView = EmptyShadowView

\* The tag of the child view a mutation is about.
ChildTag(m) ==
    IF m.type \in {"Create", "Insert"} THEN m.newChildShadowView.tag
                                        ELSE m.oldChildShadowView.tag

\* C1 (as claimed): the host can apply the whole list, and once it has, it
\* equals the flattened projection of the new tree.
C1_Coverage ==
    /\ pc # "failed"
    /\ Mounted => host = NewHost

\* C2 (as claimed): the mutation the host is about to apply names only views
\* that exist, and a Create names a view that does not exist.
C2_NamesLiveTags == Mounting => NamesLiveTags(host, NextMutation)

\* C3 (as claimed): the index of the mutation the host is about to apply is
\* at least 0 and less than the current child count of the named parent,
\* the root Update with its -1 excepted.
C3_IndexBelowChildCount ==
    (Mounting /\ NamesLiveTags(host, NextMutation)
       /\ CarriesIndex(NextMutation) /\ ~IsRootUpdate(NextMutation))
      => /\ 0 <= NextMutation.index
         /\ NextMutation.index
              < Len(HostChildren(host, NextMutation.parentShadowView.tag))

\* C3 (amended): applied to a host that could apply every earlier mutation
\* of the list, a Remove or an Update carries an index i with
\* 0 <= i < child count of its parent, an Insert one with
\* 0 <= i <= child count (an Insert at the end carries the count itself),
\* and the root Update carries -1.
C3_IndexInRange ==
    (Mounting /\ NamesLiveTags(host, NextMutation))
      => IndexInRange(host, NextMutation)

\* C3 witness: some mutations applied, and the next one is an Insert at the
\* end of a non-empty child list.
C3_Witness ==
    /\ Mounting
    /\ applied > 0
    /\ NextMutation.type = "Insert"
    /\ NamesLiveTags(host, NextMutation)
    /\ NextMutation.index > 0
    /\ NextMutation.index
         = Len(HostChildren(host, NextMutation.parentShadowView.tag))
    /\ \E k \in 1..applied : mutations[k].type = "Remove"

\* C4: every Insert of the list is preceded by a Create of the same view,
\* or inserts a view whose tag is the tag of a view of the old tree.
C4_CreateBeforeInsert ==
    Diffed =>
      \A i \in Positions :
        mutations[i].type = "Insert" =>
          \/ \E j \in 1..(i - 1) :
               mutations[j] = CreateMutation(mutations[i].newChildShadowView)
          \/ mutations[i].newChildShadowView.tag \in HostTags(OldHost)

\* C4 witness: a list with an Insert of a created view and an Insert of a
\* view of the old tree that no Create names.
C4_Witness ==
    /\ Diffed
    /\ \E i \in Positions :
         /\ mutations[i].type = "Insert"
         /\ mutations[i].newChildShadowView.tag \notin HostTags(OldHost)
    /\ \E i \in Positions :
         /\ mutations[i].type = "Insert"
         /\ \A j \in Positions :
              mutations[j].type = "Create" =>
                ChildTag(mutations[j]) # ChildTag(mutations[i])

\* C5: every Delete of the list is preceded by a Remove of the same view
\* from the parent the view has in the old tree.
C5_RemoveBeforeDelete ==
    Diffed =>
      \A i \in Positions :
        mutations[i].type = "Delete" =>
          \E j \in 1..(i - 1) :
            /\ mutations[j].type = "Remove"
            /\ mutations[j].oldChildShadowView
                 = mutations[i].oldChildShadowView
            /\ mutations[j].parentShadowView.tag \in HostTags(OldHost)
            /\ \E k \in 1..Len(HostChildren(OldHost,
                                   mutations[j].parentShadowView.tag)) :
                 HostChildren(OldHost, mutations[j].parentShadowView.tag)[k]
                   = ChildTag(mutations[i])

\* C5 witness: a list that deletes a view and one of its descendants.
C5_Witness ==
    /\ Diffed
    /\ \E i, j \in Positions :
         /\ mutations[i].type = "Delete"
         /\ mutations[j].type = "Delete"
         /\ ChildTag(mutations[j])
              \in {HostChildren(OldHost, ChildTag(mutations[i]))[k] :
                     k \in 1..Len(HostChildren(OldHost,
                                               ChildTag(mutations[i])))}

\* C6: no Remove of a view comes before an Update of that view, and the old
\* view of every Update is the view its tag has in the old tree.
C6_UpdateBeforeRemove ==
    Diffed =>
      /\ \A i, j \in Positions :
           (/\ mutations[i].type = "Remove"
            /\ mutations[j].type = "Update"
            /\ ChildTag(mutations[i]) = ChildTag(mutations[j]))
             => j < i
      /\ \A j \in Positions :
           mutations[j].type = "Update" =>
             /\ ChildTag(mutations[j]) \in HostTags(OldHost)
             /\ mutations[j].oldChildShadowView
                  = HostEntry(OldHost, ChildTag(mutations[j])).shadowView

\* C6 witness: a list with the Update of a child view whose view changed and,
\* after it, the Remove of another view.
C6_Witness ==
    /\ Diffed
    /\ \E i, j \in Positions :
         /\ j < i
         /\ mutations[j].type = "Update"
         /\ ~IsRootUpdate(mutations[j])
         /\ mutations[j].oldChildShadowView # mutations[j].newChildShadowView
         /\ mutations[i].type = "Remove"

\* Tag v is an effective child of the view with tag p in host projection h.
IsChildIn(h, p, v) ==
    /\ p \in HostTags(h)
    /\ \E k \in 1..Len(HostChildren(h, p)) : HostChildren(h, p)[k] = v

Creates(v) ==
    \E i \in Positions :
      mutations[i].type = "Create" /\ ChildTag(mutations[i]) = v

\* C7 (as claimed): a tag that is an effective child of the parent with tag
\* p in the old tree and in the new tree gets no Create, whatever happens
\* to p.
C7_NoCreateUnderCommonParent ==
    Diffed =>
      \A p, v \in 1..MaxTag :
        (IsChildIn(OldHost, p, v) /\ IsChildIn(NewHost, p, v)) => ~Creates(v)

\* C7 (amended): a tag that is an effective child of the parent with tag p
\* in the old tree and in the new tree gets no Create, provided the list
\* holds no Create of p itself.
C7_NoCreateOfReinserted ==
    Diffed =>
      \A p, v \in 1..MaxTag :
        (IsChildIn(OldHost, p, v) /\ IsChildIn(NewHost, p, v) /\ ~Creates(p))
          => ~Creates(v)

\* C7 witness: a child moved to another index under the same parent; the
\* list removes and inserts it and creates another view.
C7_Witness ==
    /\ Diffed
    /\ \E p, v \in 1..MaxTag :
         /\ IsChildIn(OldHost, p, v) /\ IsChildIn(NewHost, p, v)
         /\ HostChildren(OldHost, p) # HostChildren(NewHost, p)
         /\ \E i, j \in Positions :
              /\ mutations[i].type = "Remove" /\ ChildTag(mutations[i]) = v
              /\ mutations[j].type = "Insert" /\ ChildTag(mutations[j]) = v
    /\ \E i \in Positions : mutations[i].type = "Create"

\* C8: the diff of a tree with itself is the empty list.
C8_Identity ==
    (Diffed /\ oldRootShadowNode = newRootShadowNode) => mutations = <<>>

\* C8 witness: a tree diffed with itself whose root has a child without
\* view that has children, and whose effective child list is reordered by
\* orderIndex.
C8_Witness ==
    /\ Diffed
    /\ oldRootShadowNode = newRootShadowNode
    /\ \E k \in 1..Len(oldRootShadowNode.children) :
         /\ ~oldRootShadowNode.children[k].formsView
         /\ ~oldRootShadowNode.children[k].formsStackingContext
         /\ Len(oldRootShadowNode.children[k].children) > 0
    /\ reorderInPlaceIfNeeded(sliceChildShadowNodeViewPairs(oldRootShadowNode))
         # sliceChildShadowNodeViewPairs(oldRootShadowNode)

\* Old P[A], New P[B, A]: P is the root and keeps its view, A is the same
\* node in both trees, B is a new tag without effective children.
IsPrepend ==
    LET oldPairs == sliceChildShadowNodeViewPairs(oldRootShadowNode)
        newPairs == sliceChildShadowNodeViewPairs(newRootShadowNode)
    IN /\ ShadowView(oldRootShadowNode) = ShadowView(newRootShadowNode)
       /\ Len(oldPairs) = 1
       /\ Len(newPairs) = 2
       /\ reorderInPlaceIfNeeded(newPairs) = newPairs
       /\ newPairs[2] = oldPairs[1]
       /\ newPairs[1].shadowView.tag \notin HostTags(OldHost)
       /\ sliceChildShadowNodeViewPairs(newPairs[1].shadowNode) = <<>>

PrependedB == sliceChildShadowNodeViewPairs(newRootShadowNode)[1].shadowView
PrependedA == sliceChildShadowNodeViewPairs(oldRootShadowNode)[1].shadowView
PrependedP == ShadowView(oldRootShadowNode)

\* C9 (as claimed): for a prepend the list is exactly Create(B),
\* Insert(P, B, 0), and no mutation names A.
C9_PrependCreateInsertOnly ==
    (Diffed /\ IsPrepend) =>
      mutations = <<CreateMutation(PrependedB),
                    InsertMutation(PrependedP, PrependedB, 0)>>

\* C9 (amended): for a prepend the list is exactly Remove(P, A, 0),
\* Create(B), Insert(P, B, 0), Insert(P, A, 1): A is removed and inserted
\* again at index 1, and gets no Create, Delete or Update.
C9_PrependReinsertsOld ==
    (Diffed /\ IsPrepend) =>
      mutations = <<RemoveMutation(PrependedP, PrependedA, 0),
                    CreateMutation(PrependedB),
                    InsertMutation(PrependedP, PrependedB, 0),
                    InsertMutation(PrependedP, PrependedA, 1)>>

\* C9 witness: a prepend has been diffed.
C9_Witness == Diffed /\ IsPrepend

\* C10: the list holds a root Update exactly when the two root views differ;
\* it is then the first mutation, Update(empty view, old root view, new root
\* view, -1); no other Insert, Remove or Update carries -1; the rest of the
\* list is the diff of the two child layers of the roots.
C10_RootUpdate ==
    Diffed =>
      LET oldRootShadowView == ShadowView(oldRootShadowNode)
          newRootShadowView == ShadowView(newRootShadowNode)
          rootUpdate == UpdateMutation(EmptyShadowView, oldRootShadowView,
                                       newRootShadowView, -1)
          childMutations ==
            calculateShadowViewMutations(
              oldRootShadowView,
              sliceChildShadowNodeViewPairs(oldRootShadowNode),
              sliceChildShadowNodeViewPairs(newRootShadowNode))
      IN /\ (oldRootShadowView # newRootShadowView)
              <=> (\E k \in Positions : mutations[k] = rootUpdate)
         /\ \A k \in Positions :
              (\/ IsRootUpdate(mutations[k])
               \/ (CarriesIndex(mutations[k]) /\ mutations[k].index = -1))
                => (k = 1 /\ mutations[k] = rootUpdate)
         /\ mutations = (IF oldRootShadowView # newRootShadowView
                           THEN <<rootUpdate>> ELSE <<>>) \o childMutations

\* C10 witness: a list that starts with the root Update and goes on with
\* mutations of the children.
C10_Witness ==
    /\ Diffed
    /\ ShadowView(oldRootShadowNode) # ShadowView(newRootShadowNode)
    /\ Len(mutations) > 1
    /\ IsRootUpdate(mutations[1])

-----------------------------------------------------------------------------
(* Properties of one call of the recursive driver: the call the roots       *)
(* overload makes on the two child lists of the roots.                      *)

DriverParent == ShadowView(oldRootShadowNode)
DriverOld ==
    reorderInPlaceIfNeeded(sliceChildShadowNodeViewPairs(oldRootShadowNode))
DriverNew ==
    reorderInPlaceIfNeeded(sliceChildShadowNodeViewPairs(newRootShadowNode))
TagsOf(pairs) == {pairs[k].shadowView.tag : k \in 1..Len(pairs)}

\* The block the driver call appended: the list without the root Update.
DriverBlock ==
    IF Len(mutations) > 0 /\ IsRootUpdate(mutations[1])
      THEN SubSeq(mutations, 2, Len(mutations))
      ELSE mutations

\* A mutation of this level names the parent of the call (Insert, Remove,
\* Update), an old child (Delete) or a new child (Create); every other
\* mutation of the block comes from a recursion on a subtree.
OfThisLevel(m) ==
    CASE m.type \in {"Insert", "Remove", "Update"} ->
           m.parentShadowView.tag = DriverParent.tag
      [] m.type = "Delete" -> ChildTag(m) \in TagsOf(DriverOld)
      [] m.type = "Create" -> ChildTag(m) \in TagsOf(DriverNew)

\* The position of a list of this level in the flush.
FlushRank(m) ==
    CASE m.type = "Update" -> 2
      [] m.type = "Remove" -> 3
      [] m.type = "Delete" -> 4
      [] m.type = "Create" -> 5
      [] m.type = "Insert" -> 7

\* Positions a+1 .. c of the block hold this level's Updates (ascending
\* index), Removes (descending index), Deletes and Creates, in that order,
\* and positions d+1 .. Len hold this level's Inserts (ascending index).
LevelListsInOrder(block, a, c, d) ==
    /\ \A i \in (a + 1)..c :
         OfThisLevel(block[i]) /\ FlushRank(block[i]) \in 2..5
    /\ \A i \in (d + 1)..Len(block) :
         OfThisLevel(block[i]) /\ block[i].type = "Insert"
    /\ \A i, j \in ((a + 1)..c) \cup ((d + 1)..Len(block)) :
         i < j =>
           /\ FlushRank(block[i]) <= FlushRank(block[j])
           /\ (block[i].type = block[j].type
                 /\ block[i].type \in {"Update", "Insert"})
                => block[i].index < block[j].index
           /\ (block[i].type = block[j].type /\ block[i].type = "Remove")
                => block[i].index > block[j].index

FlushOrderOfLists ==
    Diffed =>
      \E a, c, d \in 0..Len(DriverBlock) :
        /\ a <= c /\ c <= d
        /\ \A i \in 1..a : ~OfThisLevel(DriverBlock[i])
        /\ LevelListsInOrder(DriverBlock, a, c, d)
        /\ \A i \in (c + 1)..d : ~OfThisLevel(DriverBlock[i])

\* The first index at which the two sibling lists carry different tags, or
\* the length of the shorter list.
FirstMismatch ==
    LET shorter == IF Len(DriverOld) < Len(DriverNew)
                     THEN Len(DriverOld) ELSE Len(DriverNew)
        differ == {i \in 0..(shorter - 1) :
                     DriverOld[i + 1].shadowView.tag
                       # DriverNew[i + 1].shadowView.tag}
    IN IF differ = {} THEN shorter
       ELSE CHOOSE i \in differ : \A j \in differ : i <= j

OldTail == FirstMismatch..(Len(DriverOld) - 1)
NewTail == FirstMismatch..(Len(DriverNew) - 1)
OldTailTags == {DriverOld[i + 1].shadowView.tag : i \in OldTail}
NewTailTags == {DriverNew[j + 1].shadowView.tag : j \in NewTail}

\* This level's mutations of one type, as a set, and how many there are.
LevelPositions(type) ==
    {k \in 1..Len(DriverBlock) :
       DriverBlock[k].type = type /\ OfThisLevel(DriverBlock[k])}
LevelMutations(type) == {DriverBlock[k] : k \in LevelPositions(type)}
LevelHasExactly(type, expected) ==
    /\ LevelMutations(type) = expected
    /\ Cardinality(LevelPositions(type)) = Cardinality(expected)

\* C19: with L the first mismatch, the driver call emits Remove(P, old[i],
\* i) for every old child at i >= L and Insert(P, new[j], j) for every new
\* child at j >= L, Delete(old[i]) exactly for the old children at i >= L
\* whose tag no new child at an index >= L carries, and Create(new[j])
\* exactly for the new children at j >= L whose tag no old child at an index
\* >= L carries; each once.
C19_TailHandling ==
    Diffed =>
      /\ LevelHasExactly("Remove",
            {RemoveMutation(DriverParent, DriverOld[i + 1].shadowView, i) :
               i \in OldTail})
      /\ LevelHasExactly("Insert",
            {InsertMutation(DriverParent, DriverNew[j + 1].shadowView, j) :
               j \in NewTail})
      /\ LevelHasExactly("Delete",
            {DeleteMutation(DriverOld[i + 1].shadowView) :
               i \in {k \in OldTail :
                        DriverOld[k + 1].shadowView.tag \notin NewTailTags}})
      /\ LevelHasExactly("Create",
            {CreateMutation(DriverNew[j + 1].shadowView) :
               j \in {k \in NewTail :
                        DriverNew[k + 1].shadowView.tag \notin OldTailTags}})

\* C19 witness: a reorder behind an aligned first child; the two tails
\* hold the same two tags and the level has no Create and no Delete.
C19_Witness ==
    /\ Diffed
    /\ FirstMismatch = 1
    /\ Cardinality(OldTailTags) = 2
    /\ OldTailTags = NewTailTags
    /\ LevelPositions("Create") = {}
    /\ LevelPositions("Delete") = {}
    /\ Cardinality(LevelPositions("Remove")) = 2
    /\ Cardinality(LevelPositions("Insert")) = 2

\* C19, the other case: a tail child that is gone and a tail child that is
\* new, next to one that is in both tails.
C19_DeleteAndCreate ==
    /\ Diffed
    /\ OldTailTags \ NewTailTags # {}
    /\ NewTailTags \ OldTailTags # {}
    /\ OldTailTags \cap NewTailTags # {}

\* C20: with L the first index at which the tags of the two lists differ
\* (the length of the shorter list if there is none), the driver call emits
\* Update(P, old[i], new[i], i) exactly for the i < L at which the two views
\* differ, so none for a child at an index >= L; and this level's Remove,
\* Insert, Create and Delete name no child at an index < L.
C20_PrefixAlignment ==
    Diffed =>
      /\ LevelHasExactly("Update",
            {UpdateMutation(DriverParent, DriverOld[i + 1].shadowView,
                            DriverNew[i + 1].shadowView, i) :
               i \in {k \in 0..(FirstMismatch - 1) :
                        DriverOld[k + 1].shadowView
                          # DriverNew[k + 1].shadowView}})
      /\ \A k \in LevelPositions("Remove") \cup LevelPositions("Insert") :
           DriverBlock[k].index >= FirstMismatch
      /\ \A k \in LevelPositions("Delete") :
           \A i \in 0..(FirstMismatch - 1) :
             ChildTag(DriverBlock[k]) # DriverOld[i + 1].shadowView.tag
      /\ \A k \in LevelPositions("Create") :
           \A i \in 0..(FirstMismatch - 1) :
             ChildTag(DriverBlock[k]) # DriverNew[i + 1].shadowView.tag

\* C20 witness: an Update of the aligned first child, and behind it a tag
\* that is in both tails with a changed view and gets no Update.
C20_Witness ==
    /\ Diffed
    /\ FirstMismatch >= 1
    /\ LevelPositions("Update") # {}
    /\ \E i \in OldTail, j \in NewTail :
         /\ DriverOld[i + 1].shadowView.tag = DriverNew[j + 1].shadowView.tag
         /\ DriverOld[i + 1].shadowView # DriverNew[j + 1].shadowView

-----------------------------------------------------------------------------
(* sliceChildShadowNodeViewPairs on its own: one call on a node whose       *)
(* descendants carry every combination of the two traits.                   *)

\* No diff is in progress.
DiffIdle ==
    /\ oldRootShadowNode = <<>>
    /\ newRootShadowNode = <<>>
    /\ mutations = <<>>
    /\ pc = "idle"
    /\ applied = 0
    /\ host = {}

SliceAttrs ==
    Attrs({0}, {0}, {StackingView, FlattenedView, NoView, StackingNoView},
          {0})
SliceTrees == Trees(MaxTag, SliceAttrs, SliceAttrs, TRUE)

InitSlice ==
    /\ slicedShadowNode \in SliceTrees
    /\ slicedPairList = <<>>
    /\ sliced = FALSE
    /\ DiffIdle
    /\ RegistryIdle
    /\ HandlerIdle
    /\ TinyMapIdle

\* slicedPairList = sliceChildShadowNodeViewPairs(slicedShadowNode)
SliceChildren ==
    /\ ~sliced
    /\ slicedPairList' = sliceChildShadowNodeViewPairs(slicedShadowNode)
    /\ sliced' = TRUE
    /\ UNCHANGED slicedShadowNode
    /\ UNCHANGED <<diffVars, registryVars, handlerVars, tinyMapVars>>

NextSlice == SliceChildren

SpecSlice == InitSlice /\ [][NextSlice]_vars

\* The proper descendants of a node in depth-first pre-order, each with
\* whether a node strictly between the two forms a stacking context.
RECURSIVE DescendantsFrom(_, _, _)
DescendantsFrom(children, k, behindStackingContext) ==
    IF k > Len(children) THEN <<>>
    ELSE <<[node |-> children[k], behind |-> behindStackingContext]>>
           \o DescendantsFrom(
                children[k].children, 1,
                behindStackingContext \/ children[k].formsStackingContext)
           \o DescendantsFrom(children, k + 1, behindStackingContext)

Descendants(node) == DescendantsFrom(node.children, 1, FALSE)

IsEffectiveChild(d) ==
    /\ d.node.formsView \/ d.node.formsStackingContext
    /\ ~d.behind

\* The nodes of the pairs of a list, in list order.
NodesOfPairs(pairs) == [k \in 1..Len(pairs) |-> pairs[k].shadowNode]

\* C12: the slicer returns nothing for a node that forms a view without
\* forming a stacking context; for every other node it returns, in
\* depth-first pre-order and once each, the proper descendants that form a
\* view or a stacking context and have no stacking context strictly between
\* the node and themselves.
C12_SlicerResult ==
    sliced =>
      LET effective ==
            SelectSeq(Descendants(slicedShadowNode), IsEffectiveChild)
      IN /\ NodesOfPairs(slicedPairList)
              = (IF /\ slicedShadowNode.formsView
                    /\ ~slicedShadowNode.formsStackingContext
                   THEN <<>>
                   ELSE [k \in 1..Len(effective) |-> effective[k].node])
         /\ \A i, j \in 1..Len(slicedPairList) :
              slicedPairList[i].shadowNode.tag
                  = slicedPairList[j].shadowNode.tag
                => i = j
         /\ \A k \in 1..Len(slicedPairList) :
              slicedPairList[k].shadowView.tag
                = slicedPairList[k].shadowNode.tag

\* C12 witness: a list that holds a stacking context that forms no view,
\* whose children are left out, and a descendant promoted through a node
\* that forms neither a view nor a stacking context.
C12_Witness ==
    /\ sliced
    /\ \E i, j \in 1..Len(slicedPairList) :
         /\ slicedPairList[i].shadowNode.formsStackingContext
         /\ ~slicedPairList[i].shadowNode.formsView
         /\ Len(slicedPairList[i].shadowNode.children) > 0
         /\ \E k \in 1..Len(slicedShadowNode.children) :
              LET c == slicedShadowNode.children[k]
              IN /\ ~c.formsView /\ ~c.formsStackingContext
                 /\ \E q \in 1..Len(c.children) :
                      c.children[q] = slicedPairList[j].shadowNode

-----------------------------------------------------------------------------
(* ShadowTreeRegistry: threads calling add, remove, visit and enumerate on  *)
(* one registry.  A call takes mutex_ first, unique for add and remove,     *)
(* shared for visit and enumerate, and gives it back when it returns.       *)

\* Threads are 1..NumThreads.
NumThreads == 2
\* Surface ids are 1..MaxSurfaceId.
MaxSurfaceId == 2
\* At most MaxTrees trees are ever constructed and handed to add.
MaxTrees == 3

Threads == 1..NumThreads
SurfaceIds == 1..MaxSurfaceId

\* A ShadowTree: its identity and its getSurfaceId().
ShadowTree(id, surfaceId) == [id |-> id, surfaceId |-> surfaceId]
NoShadowTree == ShadowTree(0, 0)

\* registry_.find(surfaceId) != registry_.end()
RegistryFound(surfaceId) == registry[surfaceId] # NoShadowTree

\* Mutant of RegistryEmplace: the tree is put in place of the one that is
\* there.
RegistryEmplaceOverwrite(surfaceId, shadowTree) ==
    [registry EXCEPT ![surfaceId] = shadowTree]

\* registry_.emplace(key, tree): nothing is put in when the key is there.
RegistryEmplace(surfaceId, shadowTree) ==
    IF RegistryFound(surfaceId)
      THEN registry
      ELSE [registry EXCEPT ![surfaceId] = shadowTree]

\* Mutant of RegistryErase: the entry is left in.
RegistryEraseNothing(surfaceId) == registry

\* registry_.erase(iterator) of a found surfaceId
RegistryErase(surfaceId) == [registry EXCEPT ![surfaceId] = NoShadowTree]

\* std::unique_lock / std::shared_lock on mutex_.
MutexFree == [exclusive |-> 0, shared |-> {}]
\* Mutant of CanLockUnique: the exclusive lock does not wait for the
\* holders of the shared lock.
CanLockUniqueOverShared == mutex.exclusive = 0
CanLockUnique == mutex.exclusive = 0 /\ mutex.shared = {}
CanLockShared == mutex.exclusive = 0
LockedUnique(t) == [mutex EXCEPT !.exclusive = t]
LockedShared(t) == [mutex EXCEPT !.shared = @ \cup {t}]
Unlocked(t) ==
    [exclusive |-> IF mutex.exclusive = t THEN 0 ELSE mutex.exclusive,
     shared |-> mutex.shared \ {t}]
\* The destructor of a std::unique_lock.
UnlockedUnique == [mutex EXCEPT !.exclusive = 0]

\* The call of add or remove a callback makes on the registry it is
\* called from: none yet.
NoInnerCall ==
    [op |-> "none", pc |-> "idle", surfaceId |-> 0,
     shadowTree |-> NoShadowTree]

\* A thread outside the registry, and a thread that just entered `op`.
NoCall ==
    [op |-> "none", pc |-> "idle", surfaceId |-> 0,
     shadowTree |-> NoShadowTree, remaining |-> {}, stop |-> FALSE,
     invoked |-> <<>>, returned |-> "nothing", inner |-> NoInnerCall]
Entered(op, surfaceId, shadowTree) ==
    [NoCall EXCEPT !.op = op, !.pc = "waiting", !.surfaceId = surfaceId,
                   !.shadowTree = shadowTree]
Outside(t) == call[t].pc \in {"idle", "returned"}

\* The call of thread t that runs: the one its callback made, if that has
\* not returned, else the one the thread made.
InInnerCall(t) == call[t].inner.pc \in {"waiting", "locked"}
Frame(t) == IF InInnerCall(t) THEN call[t].inner ELSE call[t]
FrameAt(t, position) ==
    IF InInnerCall(t) THEN [call EXCEPT ![t].inner.pc = position]
                      ELSE [call EXCEPT ![t].pc = position]
\* The callback of thread t is not inside a call it made.
CallbackDone(t) == ~InInnerCall(t)

otherThanRegistryVars == <<diffVars, sliceVars, handlerVars, tinyMapVars>>

InitRegistry ==
    /\ registry = [s \in SurfaceIds |-> NoShadowTree]
    /\ mutex = MutexFree
    /\ call = [t \in Threads |-> NoCall]
    /\ nextTree = 1
    /\ added = [s \in SurfaceIds |-> FALSE]
    /\ DiffIdle
    /\ SliceIdle
    /\ HandlerIdle
    /\ TinyMapIdle

\* A thread calls add(shadowTree), remove(surfaceId), visit(surfaceId,
\* callback) or enumerate(callback).
AddCall(t, surfaceId) ==
    /\ Outside(t)
    /\ nextTree <= MaxTrees
    /\ call' = [call EXCEPT
                  ![t] = Entered("add", surfaceId,
                                 ShadowTree(nextTree, surfaceId))]
    /\ nextTree' = nextTree + 1
    /\ UNCHANGED <<registry, mutex, added>>
    /\ UNCHANGED otherThanRegistryVars

RemoveCall(t, surfaceId) ==
    /\ Outside(t)
    /\ call' = [call EXCEPT ![t] = Entered("remove", surfaceId, NoShadowTree)]
    /\ UNCHANGED <<registry, mutex, nextTree, added>>
    /\ UNCHANGED otherThanRegistryVars

VisitCall(t, surfaceId) ==
    /\ Outside(t)
    /\ call' = [call EXCEPT ![t] = Entered("visit", surfaceId, NoShadowTree)]
    /\ UNCHANGED <<registry, mutex, nextTree, added>>
    /\ UNCHANGED otherThanRegistryVars

EnumerateCall(t) ==
    /\ Outside(t)
    /\ call' = [call EXCEPT ![t] = Entered("enumerate", 0, NoShadowTree)]
    /\ UNCHANGED <<registry, mutex, nextTree, added>>
    /\ UNCHANGED otherThanRegistryVars

\* Mutant of LockUnique: add and remove take a std::shared_lock.
LockUniqueAsShared(t) ==
    /\ call[t].pc = "waiting"
    /\ call[t].op \in {"add", "remove"}
    /\ CanLockShared
    /\ mutex' = LockedShared(t)
    /\ call' = [call EXCEPT ![t].pc = "locked"]
    /\ UNCHANGED <<registry, nextTree, added>>
    /\ UNCHANGED otherThanRegistryVars

\* std::unique_lock<better::shared_mutex> lock(mutex_);
LockUnique(t) ==
    /\ Frame(t).pc = "waiting"
    /\ Frame(t).op \in {"add", "remove"}
    /\ CanLockUnique
    /\ mutex' = LockedUnique(t)
    /\ call' = FrameAt(t, "locked")
    /\ UNCHANGED <<registry, nextTree, added>>
    /\ UNCHANGED otherThanRegistryVars

\* std::shared_lock<better::shared_mutex> lock(mutex_); enumerate starts
\* its loop over the entries with stop = false.
LockShared(t) ==
    /\ call[t].pc = "waiting"
    /\ call[t].op \in {"visit", "enumerate"}
    /\ CanLockShared
    /\ mutex' = LockedShared(t)
    /\ call' = [call EXCEPT
                  ![t].pc = "locked",
                  ![t].stop = FALSE,
                  ![t].remaining =
                     IF call[t].op = "enumerate"
                       THEN {s \in SurfaceIds : RegistryFound(s)}
                       ELSE {}]
    /\ UNCHANGED <<registry, nextTree, added>>
    /\ UNCHANGED otherThanRegistryVars

\* add: the emplace, then the return.
AddEmplace(t) ==
    /\ Frame(t).pc = "locked"
    /\ Frame(t).op = "add"
    /\ registry' = RegistryEmplace(Frame(t).surfaceId, Frame(t).shadowTree)
    /\ added' = [added EXCEPT ![Frame(t).surfaceId] = TRUE]
    /\ mutex' = UnlockedUnique
    /\ call' = FrameAt(t, "returned")
    /\ UNCHANGED nextTree
    /\ UNCHANGED otherThanRegistryVars

\* remove: find, erase if found, then the return.
RemoveErase(t) ==
    /\ Frame(t).pc = "locked"
    /\ Frame(t).op = "remove"
    /\ registry' = IF RegistryFound(Frame(t).surfaceId)
                     THEN RegistryErase(Frame(t).surfaceId)
                     ELSE registry
    /\ added' = [added EXCEPT ![Frame(t).surfaceId] = FALSE]
    /\ mutex' = UnlockedUnique
    /\ call' = FrameAt(t, "returned")
    /\ UNCHANGED nextTree
    /\ UNCHANGED otherThanRegistryVars

\* Mutant of VisitFind: the callback is run on a surfaceId that is not
\* found as well, on the empty entry.
VisitFindAlways(t) ==
    /\ call[t].pc = "locked"
    /\ call[t].op = "visit"
    /\ call' = [call EXCEPT
                  ![t].pc = "callback",
                  ![t].shadowTree = registry[call[t].surfaceId],
                  ![t].invoked = Append(@, [shadowTree |->
                                              registry[call[t].surfaceId],
                                            stop |-> FALSE])]
    /\ UNCHANGED <<registry, mutex, nextTree, added>>
    /\ UNCHANGED otherThanRegistryVars

\* visit: find; return false if not found, else enter the callback.
VisitFind(t) ==
    /\ call[t].pc = "locked"
    /\ call[t].op = "visit"
    /\ IF ~RegistryFound(call[t].surfaceId)
         THEN /\ call' = [call EXCEPT ![t].pc = "returned",
                                      ![t].returned = "false"]
              /\ mutex' = Unlocked(t)
         ELSE /\ call' = [call EXCEPT
                            ![t].pc = "callback",
                            ![t].shadowTree = registry[call[t].surfaceId],
                            ![t].invoked =
                               Append(@, [shadowTree |->
                                            registry[call[t].surfaceId],
                                          stop |-> FALSE])]
              /\ UNCHANGED mutex
    /\ UNCHANGED <<registry, nextTree, added>>
    /\ UNCHANGED otherThanRegistryVars

\* visit: the callback returns, visit returns true.
VisitCallbackReturn(t) ==
    /\ call[t].pc = "callback"
    /\ call[t].op = "visit"
    /\ CallbackDone(t)
    /\ call' = [call EXCEPT ![t].pc = "returned", ![t].returned = "true"]
    /\ mutex' = Unlocked(t)
    /\ UNCHANGED <<registry, nextTree, added>>
    /\ UNCHANGED otherThanRegistryVars

\* Mutant of EnumerateNext: the `if (stop) break` left out.
EnumerateNextNoBreak(t) ==
    /\ call[t].pc = "locked"
    /\ call[t].op = "enumerate"
    /\ IF call[t].remaining = {}
         THEN /\ call' = [call EXCEPT ![t].pc = "returned"]
              /\ mutex' = Unlocked(t)
         ELSE /\ \E s \in call[t].remaining :
                   call' = [call EXCEPT
                              ![t].pc = "callback",
                              ![t].shadowTree = registry[s],
                              ![t].remaining = @ \ {s},
                              ![t].invoked =
                                 Append(@, [shadowTree |-> registry[s],
                                            stop |-> call[t].stop])]
              /\ UNCHANGED mutex
    /\ UNCHANGED <<registry, nextTree, added>>
    /\ UNCHANGED otherThanRegistryVars

\* enumerate: the loop ends after the last entry or when stop is set;
\* else the callback is entered on the next entry, in the order of the map.
EnumerateNext(t) ==
    /\ call[t].pc = "locked"
    /\ call[t].op = "enumerate"
    /\ IF call[t].stop \/ call[t].remaining = {}
         THEN /\ call' = [call EXCEPT ![t].pc = "returned"]
              /\ mutex' = Unlocked(t)
         ELSE /\ \E s \in call[t].remaining :
                   call' = [call EXCEPT
                              ![t].pc = "callback",
                              ![t].shadowTree = registry[s],
                              ![t].remaining = @ \ {s},
                              ![t].invoked =
                                 Append(@, [shadowTree |-> registry[s],
                                            stop |-> call[t].stop])]
              /\ UNCHANGED mutex
    /\ UNCHANGED <<registry, nextTree, added>>
    /\ UNCHANGED otherThanRegistryVars

\* enumerate: the callback returns, having set the stop flag or not.
EnumerateCallbackReturn(t, stop) ==
    /\ call[t].pc = "callback"
    /\ call[t].op = "enumerate"
    /\ CallbackDone(t)
    /\ call' = [call EXCEPT ![t].pc = "locked", ![t].stop = stop,
                            ![t].inner = NoInnerCall]
    /\ UNCHANGED <<registry, mutex, nextTree, added>>
    /\ UNCHANGED otherThanRegistryVars

NextRegistry ==
    \/ \E t \in Threads, surfaceId \in SurfaceIds : AddCall(t, surfaceId)
    \/ \E t \in Threads, surfaceId \in SurfaceIds : RemoveCall(t, surfaceId)
    \/ \E t \in Threads, surfaceId \in SurfaceIds : VisitCall(t, surfaceId)
    \/ \E t \in Threads : EnumerateCall(t)
    \/ \E t \in Threads : LockUnique(t)
    \/ \E t \in Threads : LockShared(t)
    \/ \E t \in Threads : AddEmplace(t)
    \/ \E t \in Threads : RemoveErase(t)
    \/ \E t \in Threads : VisitFind(t)
    \/ \E t \in Threads : VisitCallbackReturn(t)
    \/ \E t \in Threads : EnumerateNext(t)
    \/ \E t \in Threads, stop \in BOOLEAN : EnumerateCallbackReturn(t, stop)

SpecRegistry == InitRegistry /\ [][NextRegistry]_vars

\* A callback that does what it must not: it calls add or remove on the
\* registry that runs it, once per invocation.
ReenterAdd(t, surfaceId) ==
    /\ call[t].pc = "callback"
    /\ call[t].inner.pc = "idle"
    /\ nextTree <= MaxTrees
    /\ call' = [call EXCEPT
                  ![t].inner = [op |-> "add", pc |-> "waiting",
                                surfaceId |-> surfaceId,
                                shadowTree |-> ShadowTree(nextTree,
                                                          surfaceId)]]
    /\ nextTree' = nextTree + 1
    /\ UNCHANGED <<registry, mutex, added>>
    /\ UNCHANGED otherThanRegistryVars

ReenterRemove(t, surfaceId) ==
    /\ call[t].pc = "callback"
    /\ call[t].inner.pc = "idle"
    /\ call' = [call EXCEPT
                  ![t].inner = [op |-> "remove", pc |-> "waiting",
                                surfaceId |-> surfaceId,
                                shadowTree |-> NoShadowTree]]
    /\ UNCHANGED <<registry, mutex, nextTree, added>>
    /\ UNCHANGED otherThanRegistryVars

NextReentrant ==
    \/ NextRegistry
    \/ \E t \in Threads, surfaceId \in SurfaceIds : ReenterAdd(t, surfaceId)
    \/ \E t \in Threads, surfaceId \in SurfaceIds :
         ReenterRemove(t, surfaceId)

SpecReentrant == InitRegistry /\ [][NextReentrant]_vars

-----------------------------------------------------------------------------
(* Properties of the registry. *)

\* Thread t takes a step of its visit call.
VisitStep(t) == call[t].op = "visit" /\ call'[t] # call[t]

\* C13: when visit(s, callback) looks s up, it enters the callback, once
\* and on the tree the registry holds for s, exactly when an add of a tree
\* with surfaceId s has not been followed by remove(s), and returns true
\* after the callback; otherwise it returns false without entering the
\* callback.  No step of visit changes the registry.
C13_Visit ==
    [][\A t \in Threads :
         /\ VisitStep(t) => registry' = registry
         /\ (VisitStep(t) /\ call[t].pc = "locked") =>
              LET s == call[t].surfaceId IN
              IF added[s]
                THEN /\ call'[t].pc = "callback"
                     /\ registry[s].surfaceId = s
                     /\ call'[t].invoked
                          = <<[shadowTree |-> registry[s], stop |-> FALSE]>>
                ELSE /\ call'[t].pc = "returned"
                     /\ call'[t].returned = "false"
                     /\ call'[t].invoked = <<>>
         /\ (VisitStep(t) /\ call[t].pc = "callback") =>
              /\ call'[t].pc = "returned"
              /\ call'[t].returned = "true"
              /\ call'[t].invoked = call[t].invoked]_vars

\* C13 witness: a visit that returned true after one run of the callback on
\* a surfaceId that was added twice, and a visit that returned false on a
\* surfaceId that was added and removed before.
C13_Witness ==
    \E t, u \in Threads :
      /\ call[t].op = "visit" /\ call[t].returned = "true"
      /\ Len(call[t].invoked) = 1
      /\ call[t].invoked[1].shadowTree.id = 1
      /\ nextTree > 2
      /\ \A s \in SurfaceIds : registry[s].id # 2
      /\ call[u].op = "visit" /\ call[u].returned = "false"
      /\ call[u].surfaceId = call[t].surfaceId

\* Thread t is inside the critical section of add or remove.
Writing(t) == call[t].op \in {"add", "remove"} /\ call[t].pc = "locked"
\* Thread t holds the lock of visit or enumerate; it is in the callback or
\* between two callbacks.
Reading(t) ==
    call[t].op \in {"visit", "enumerate"}
      /\ call[t].pc \in {"locked", "callback"}
InCallback(t) == call[t].pc = "callback"

\* C14: while an add or a remove is inside its critical section, no other
\* add or remove is inside its own and no visit or enumerate holds the
\* lock or runs its callback; so the tree a callback was handed stays the
\* tree the registry owns for its surfaceId until the callback returns.
C14_Locking ==
    /\ \A t, u \in Threads :
         (Writing(t) /\ u # t) => (~Writing(u) /\ ~Reading(u))
    /\ \A t \in Threads :
         /\ Writing(t) => (mutex.exclusive = t /\ mutex.shared = {})
         /\ Reading(t) => (mutex.exclusive = 0 /\ t \in mutex.shared)
         /\ InCallback(t) =>
              /\ call[t].shadowTree # NoShadowTree
              /\ registry[call[t].shadowTree.surfaceId] = call[t].shadowTree

\* C14 witness: the callbacks of a visit and of an enumerate run at the
\* same time on two threads.
C14_Witness ==
    \E t, u \in Threads :
      /\ InCallback(t) /\ call[t].op = "visit"
      /\ InCallback(u) /\ call[u].op = "enumerate"

\* C14, the other side: a remove waits for the lock while a callback runs
\* on the tree of the same surfaceId.
C14_WriterWaits ==
    \E t, u \in Threads :
      /\ InCallback(t)
      /\ call[u].op = "remove" /\ call[u].pc = "waiting"
      /\ call[u].surfaceId = call[t].shadowTree.surfaceId

\* Thread t takes a step of its enumerate call, after the call itself.
EnumerateStep(t) ==
    /\ call[t].op = "enumerate"
    /\ call[t].pc \in {"waiting", "locked", "callback"}
    /\ call'[t] # call[t]

InvokedTrees(t) ==
    {call[t].invoked[k].shadowTree : k \in 1..Len(call[t].invoked)}
RegisteredTrees == {registry[s] : s \in {r \in SurfaceIds : RegistryFound(r)}}

\* C15: every run of the callback of enumerate is on a registered tree it
\* has not been run on before in this call, and is handed a stop flag that
\* is false; once a run has set the flag there is no further run; and when
\* enumerate returns with the flag never set, the callback has run on every
\* registered tree.
C15_Enumerate ==
    [][\A t \in Threads :
         EnumerateStep(t) =>
           /\ call[t].stop => call'[t].invoked = call[t].invoked
           /\ call'[t].pc = "callback" =>
                \E tree \in RegisteredTrees \ InvokedTrees(t) :
                  call'[t].invoked
                    = Append(call[t].invoked,
                             [shadowTree |-> tree, stop |-> FALSE])
           /\ call'[t].pc # "callback" =>
                call'[t].invoked = call[t].invoked
           /\ (call'[t].pc = "returned" /\ ~call[t].stop) =>
                InvokedTrees(t) = RegisteredTrees]_vars

\* C15 witness: one enumerate returned after its first run set the stop
\* flag, with two trees registered, and another ran on both trees.
C15_Witness ==
    \E t, u \in Threads :
      /\ call[t].op = "enumerate" /\ call[t].pc = "returned"
      /\ call[t].stop /\ Len(call[t].invoked) = 1
      /\ call[u].op = "enumerate" /\ call[u].pc = "returned"
      /\ ~call[u].stop /\ Len(call[u].invoked) = 2
      /\ \A s \in SurfaceIds : RegistryFound(s)

-----------------------------------------------------------------------------
(* SurfaceHandler: threads calling the life-cycle methods and the           *)
(* parameter accessors of one handler.  link_ is guarded by linkMutex_,     *)
(* parameters_ by parametersMutex_; a method that needs both halves takes   *)
(* the two locks one after the other.                                       *)

\* A thread makes at most MaxCalls calls.
MaxCalls == 2

\* enum class Status
Unregistered == "Unregistered"
Registered == "Registered"
Running == "Running"
\* enum class DisplayMode: Visible = 0, Suspended = 1, Hidden = 2
DisplayModes == {0, 1, 2}
\* UIManager const *: nullptr or a UIManager
NullUIManager == 0
UIManagers == {0, 1}

\* The methods that write or read parameters_, and that write or read
\* link_; start reads the parameters the surface is started with, and
\* setDisplayMode hands the mode on to a running surface.
ParametersWriters == {"setDisplayMode", "setProps", "constraintLayout"}
ParametersReaders ==
    {"getDisplayMode", "getProps", "getLayoutConstraints", "start"}
LinkWriters == {"setUIManager", "start", "stop"}
LinkReaders == {"getStatus", "setDisplayMode"}

\* The values a method can be called with.
Arguments(op) ==
    CASE op = "setUIManager" -> UIManagers
      [] op = "setDisplayMode" -> DisplayModes
      [] op \in {"setProps", "constraintLayout"} -> 0..MaxProps
      [] OTHER -> {0}

\* A reader/writer lock: std::unique_lock and std::shared_lock on it.
SharedMutexFree == [exclusive |-> 0, shared |-> {}]
SharedMutexCanLock(m, unique) ==
    IF unique THEN m.exclusive = 0 /\ m.shared = {} ELSE m.exclusive = 0
SharedMutexLock(m, t, unique) ==
    IF unique THEN [m EXCEPT !.exclusive = t]
              ELSE [m EXCEPT !.shared = @ \cup {t}]
SharedMutexUnlock(m, t) ==
    [exclusive |-> IF m.exclusive = t THEN 0 ELSE m.exclusive,
     shared |-> m.shared \ {t}]
SharedMutexHeldBy(m, t) == m.exclusive = t \/ t \in m.shared

NoSurfaceCall == [op |-> "none", pc |-> "idle", arg |-> 0]
OutsideHandler(t) == surfaceCall[t].pc \in {"idle", "returned"}
Alive == outcome = "alive"

otherThanHandlerVars == <<diffVars, sliceVars, registryVars, tinyMapVars>>

\* SurfaceHandler(moduleName, surfaceId)
InitHandler ==
    /\ link = [status |-> Unregistered, uiManager |-> NullUIManager]
    /\ parameters = [displayMode |-> 0, props |-> 0, layoutConstraints |-> 0]
    /\ linkMutex = SharedMutexFree
    /\ parametersMutex = SharedMutexFree
    /\ surfaceCall = [t \in Threads |-> NoSurfaceCall]
    /\ callCount = [t \in Threads |-> 0]
    /\ outcome = "alive"
    /\ DiffIdle
    /\ SliceIdle
    /\ RegistryIdle
    /\ TinyMapIdle

\* A thread calls a method; the call goes for parametersMutex_ first when
\* the method touches parameters_, else for linkMutex_.
Call(t, op, arg) ==
    /\ Alive
    /\ OutsideHandler(t)
    /\ callCount[t] < MaxCalls
    /\ surfaceCall' =
         [surfaceCall EXCEPT
            ![t] = [op |-> op, arg |-> arg,
                    pc |-> IF op \in ParametersWriters \cup ParametersReaders
                             THEN "parametersWaiting" ELSE "linkWaiting"]]
    /\ callCount' = [callCount EXCEPT ![t] = @ + 1]
    /\ UNCHANGED <<link, parameters, linkMutex, parametersMutex, outcome>>
    /\ UNCHANGED otherThanHandlerVars

\* std::unique_lock / std::shared_lock on parametersMutex_
ParametersLock(t) ==
    /\ Alive
    /\ surfaceCall[t].pc = "parametersWaiting"
    /\ SharedMutexCanLock(parametersMutex,
                          surfaceCall[t].op \in ParametersWriters)
    /\ parametersMutex' =
         SharedMutexLock(parametersMutex, t,
                         surfaceCall[t].op \in ParametersWriters)
    /\ surfaceCall' = [surfaceCall EXCEPT ![t].pc = "parametersLocked"]
    /\ UNCHANGED <<link, parameters, linkMutex, callCount, outcome>>
    /\ UNCHANGED otherThanHandlerVars

\* Mutant of ParametersDone: setDisplayMode and start go for linkMutex_
\* with parametersMutex_ still held.
ParametersDoneKeepsLock(t) ==
    /\ Alive
    /\ surfaceCall[t].pc = "parametersLocked"
    /\ LET op == surfaceCall[t].op
           arg == surfaceCall[t].arg
       IN /\ parameters' =
               CASE op = "setDisplayMode" ->
                      [parameters EXCEPT !.displayMode = arg]
                 [] op = "setProps" -> [parameters EXCEPT !.props = arg]
                 [] op = "constraintLayout" ->
                      [parameters EXCEPT !.layoutConstraints = arg]
                 [] OTHER -> parameters
          /\ parametersMutex' =
               IF op \in LinkWriters \cup LinkReaders
                 THEN parametersMutex
                 ELSE SharedMutexUnlock(parametersMutex, t)
          /\ surfaceCall' =
               [surfaceCall EXCEPT
                  ![t].pc = IF op \in LinkWriters \cup LinkReaders
                              THEN "linkWaiting" ELSE "returned"]
    /\ UNCHANGED <<link, linkMutex, callCount, outcome>>
    /\ UNCHANGED otherThanHandlerVars

\* The part of a method under parametersMutex_: a setter stores its value,
\* a getter and start copy; the lock is given back; setDisplayMode and
\* start go on to linkMutex_, every other method returns.
ParametersDone(t) ==
    /\ Alive
    /\ surfaceCall[t].pc = "parametersLocked"
    /\ LET op == surfaceCall[t].op
           arg == surfaceCall[t].arg
       IN /\ parameters' =
               CASE op = "setDisplayMode" ->
                      [parameters EXCEPT !.displayMode = arg]
                 [] op = "setProps" -> [parameters EXCEPT !.props = arg]
                 [] op = "constraintLayout" ->
                      [parameters EXCEPT !.layoutConstraints = arg]
                 [] OTHER -> parameters
          /\ parametersMutex' = SharedMutexUnlock(parametersMutex, t)
          /\ surfaceCall' =
               [surfaceCall EXCEPT
                  ![t].pc = IF op \in LinkWriters \cup LinkReaders
                              THEN "linkWaiting" ELSE "returned"]
    /\ UNCHANGED <<link, linkMutex, callCount, outcome>>
    /\ UNCHANGED otherThanHandlerVars

\* std::unique_lock / std::shared_lock on linkMutex_
LinkLock(t) ==
    /\ Alive
    /\ surfaceCall[t].pc = "linkWaiting"
    /\ SharedMutexCanLock(linkMutex, surfaceCall[t].op \in LinkWriters)
    /\ linkMutex' =
         SharedMutexLock(linkMutex, t, surfaceCall[t].op \in LinkWriters)
    /\ surfaceCall' = [surfaceCall EXCEPT ![t].pc = "linkLocked"]
    /\ UNCHANGED <<link, parameters, parametersMutex, callCount, outcome>>
    /\ UNCHANGED otherThanHandlerVars

\* The end of the part of a method under linkMutex_: link_ becomes
\* newLink and the method returns, or the contract was violated.
LinkDone(t, op, violated, newLink) ==
    /\ Alive
    /\ surfaceCall[t].pc = "linkLocked"
    /\ surfaceCall[t].op = op
    /\ IF violated
         THEN /\ outcome' = "fatal"
              /\ UNCHANGED <<link, linkMutex, surfaceCall>>
         ELSE /\ link' = newLink
              /\ linkMutex' = SharedMutexUnlock(linkMutex, t)
              /\ surfaceCall' = [surfaceCall EXCEPT ![t].pc = "returned"]
              /\ UNCHANGED outcome
    /\ UNCHANGED <<parameters, parametersMutex, callCount>>
    /\ UNCHANGED otherThanHandlerVars

\* setUIManager(uiManager): illegal from Running; else Registered with a
\* UIManager, Unregistered with nullptr.
SetUIManager(t) ==
    LinkDone(t, "setUIManager", link.status = Running,
             [status |-> IF surfaceCall[t].arg # NullUIManager
                           THEN Registered ELSE Unregistered,
              uiManager |-> surfaceCall[t].arg])

\* Mutant of Start: the status is not looked at.
StartUnchecked(t) ==
    LinkDone(t, "start", FALSE, [link EXCEPT !.status = Running])

\* start(): Registered -> Running; must not be called for a running
\* surface and can not be called when the status is Unregistered.
Start(t) ==
    LinkDone(t, "start", link.status # Registered,
             [link EXCEPT !.status = Running])

\* Mutant of Stop: the status is not looked at.
StopUnchecked(t) ==
    LinkDone(t, "stop", FALSE, [link EXCEPT !.status = Registered])

\* stop(): Running -> Registered; must not be called for a surface that
\* is not running.
Stop(t) ==
    LinkDone(t, "stop", link.status # Running,
             [link EXCEPT !.status = Registered])

\* getStatus()
GetStatus(t) == LinkDone(t, "getStatus", FALSE, link)

\* setDisplayMode, second part: the mode is handed to a running surface.
ApplyDisplayMode(t) == LinkDone(t, "setDisplayMode", FALSE, link)

\* ~SurfaceHandler(): legal only when the status is Unregistered.
Destroy ==
    /\ Alive
    /\ \A t \in Threads : OutsideHandler(t)
    /\ outcome' = IF link.status = Unregistered THEN "destroyed" ELSE "fatal"
    /\ UNCHANGED <<link, parameters, linkMutex, parametersMutex, surfaceCall,
                   callCount>>
    /\ UNCHANGED otherThanHandlerVars

HandlerOps ==
    ParametersWriters \cup ParametersReaders \cup LinkWriters \cup LinkReaders

NextHandler ==
    \/ \E t \in Threads, op \in HandlerOps :
         \E arg \in Arguments(op) : Call(t, op, arg)
    \/ \E t \in Threads : ParametersLock(t)
    \/ \E t \in Threads : ParametersDone(t)
    \/ \E t \in Threads : LinkLock(t)
    \/ \E t \in Threads : SetUIManager(t)
    \/ \E t \in Threads : Start(t)
    \/ \E t \in Threads : Stop(t)
    \/ \E t \in Threads : GetStatus(t)
    \/ \E t \in Threads : ApplyDisplayMode(t)
    \/ Destroy

SpecHandler == InitHandler /\ [][NextHandler]_vars

\* A thread inside a call, or about to take a lock that is free, takes its
\* next step.
HandlerProgress(t) ==
    \/ ParametersLock(t)
    \/ ParametersDone(t)
    \/ LinkLock(t)
    \/ SetUIManager(t)
    \/ Start(t)
    \/ Stop(t)
    \/ GetStatus(t)
    \/ ApplyDisplayMode(t)

SpecHandlerLive ==
    /\ InitHandler
    /\ [][NextHandler]_vars
    /\ \A t \in Threads : WF_vars(HandlerProgress(t))

-----------------------------------------------------------------------------
(* Properties of the SurfaceHandler. *)

\* Thread t ends the part of its call under linkMutex_: it returns, or the
\* call is a contract violation.
LinkEnd(t) ==
    /\ surfaceCall[t].pc = "linkLocked"
    /\ \/ surfaceCall'[t].pc = "returned"
       \/ (outcome' = "fatal" /\ SharedMutexHeldBy(linkMutex, t)
             /\ surfaceCall[t].op \in LinkWriters)

\* C16: the handler starts Unregistered, and every change of the status is
\* Unregistered -> Registered by setUIManager(non-null), Registered ->
\* Unregistered by setUIManager(nullptr), Registered -> Running by start or
\* Running -> Registered by stop; no other method changes the status.
C16_Lifecycle ==
    /\ link.status = Unregistered
    /\ [][link'.status # link.status =>
            \E t \in Threads :
              LET op == surfaceCall[t].op
                  arg == surfaceCall[t].arg
                  change == <<link.status, link'.status>>
              IN /\ LinkEnd(t)
                 /\ \/ /\ op = "setUIManager" /\ arg # NullUIManager
                       /\ change = <<Unregistered, Registered>>
                    \/ /\ op = "setUIManager" /\ arg = NullUIManager
                       /\ change = <<Registered, Unregistered>>
                    \/ op = "start" /\ change = <<Registered, Running>>
                    \/ op = "stop" /\ change = <<Running, Registered>>]_vars

\* C16 witness: a handler back in Registered after stop, with a
\* setDisplayMode made by the other thread.
C16_Witness ==
    /\ link.status = Registered
    /\ \E t, u \in Threads :
         /\ surfaceCall[t].op = "stop" /\ surfaceCall[t].pc = "returned"
         /\ surfaceCall[u].op = "setDisplayMode"
         /\ surfaceCall[u].pc = "returned"

\* The step of the destructor.
DestroyStep ==
    /\ outcome = "alive"
    /\ \A t \in Threads : OutsideHandler(t)
    /\ outcome' # outcome

\* The contract of start, stop and setUIManager as claimed, and with start
\* limited to Registered.
ViolationAsClaimed(op, status) ==
    \/ op = "start" /\ status = Running
    \/ op = "stop" /\ status # Running
    \/ op = "setUIManager" /\ status = Running
Violation(op, status) ==
    \/ op = "start" /\ status # Registered
    \/ op = "stop" /\ status # Running
    \/ op = "setUIManager" /\ status = Running

\* A step keeps the contract `violation`: a call of start, stop or
\* setUIManager that violates it, and the destruction of a handler that is
\* not Unregistered, end in the fatal state with link_ unchanged; every
\* other call of the three completes, and so does every other destruction.
ContractKept(violation(_, _)) ==
    /\ \A t \in Threads :
         (LinkEnd(t) /\ surfaceCall[t].op \in LinkWriters) =>
           IF violation(surfaceCall[t].op, link.status)
             THEN outcome' = "fatal" /\ link' = link
             ELSE outcome' = "alive" /\ surfaceCall'[t].pc = "returned"
    /\ DestroyStep =>
         /\ link' = link
         /\ outcome' = IF link.status # Unregistered
                         THEN "fatal" ELSE "destroyed"

HoldsBoth(t) ==
    SharedMutexHeldBy(linkMutex, t) /\ SharedMutexHeldBy(parametersMutex, t)

\* C18: no thread holds linkMutex_ and parametersMutex_ at the same time,
\* and every call returns, unless a contract violation has halted the
\* program.
C18_LockDiscipline ==
    /\ [](\A t \in Threads : ~HoldsBoth(t))
    /\ \A t \in Threads :
         (~OutsideHandler(t)) ~> (OutsideHandler(t) \/ outcome = "fatal")

\* C18 witness: setProps holds parametersMutex_ while start holds
\* linkMutex_ on the other thread, and a setDisplayMode waits.
C18_Witness ==
    \E t, u \in Threads :
      /\ surfaceCall[t].op = "setProps"
      /\ surfaceCall[t].pc = "parametersLocked"
      /\ surfaceCall[u].op = "start"
      /\ surfaceCall[u].pc = "linkLocked"

-----------------------------------------------------------------------------
(* Cleanup of a deleted subtree. *)

\* The views below view `tag` in host h, at any depth.
RECURSIVE HostDescendants(_, _)
HostDescendants(h, tag) ==
    LET children == {HostChildren(h, tag)[k] :
                       k \in 1..Len(HostChildren(h, tag))}
    IN children \cup UNION {HostDescendants(h, c) : c \in children}

\* The positions of the list that hold a mutation of `type` about view `tag`.
PositionsOf(type, tag) ==
    {i \in Positions : mutations[i].type = type /\ ChildTag(mutations[i]) = tag}

\* C21: children are cleaned up before their parents.  For every Delete(V)
\* of the list, every descendant D that V has in the old host gets a Remove
\* and a Delete, and every Remove and Delete of D stands before the Remove
\* of V and before Delete(V).
C21_CleanupBeforeParent ==
    Diffed =>
      \A i \in Positions :
        mutations[i].type = "Delete" =>
          LET V == ChildTag(mutations[i]) IN
          \A D \in HostDescendants(OldHost, V) :
            /\ PositionsOf("Remove", D) # {}
            /\ PositionsOf("Delete", D) # {}
            /\ \A j \in PositionsOf("Remove", D) \cup PositionsOf("Delete", D) :
                 /\ j < i
                 /\ \A r \in PositionsOf("Remove", V) : j < r

\* C21 witness: the list deletes a view that has a child and a grandchild
\* in the old host.
C21_Witness ==
    /\ Diffed
    /\ \E i \in Positions :
         /\ mutations[i].type = "Delete"
         /\ \E D \in HostDescendants(OldHost, ChildTag(mutations[i])) :
              HostDescendants(OldHost, D) # {}
         /\ PositionsOf("Remove", ChildTag(mutations[i])) # {}

-----------------------------------------------------------------------------
(* Stage 3 on a child that stage 2 inserted again. *)

\* The old tail indices whose tag is among the tags stage 2 inserted, and
\* the index the tag has in the new list.
ReinsertedOld == {i \in OldTail : DriverOld[i + 1].shadowView.tag \in NewTailTags}
NewIndexOf(i) ==
    CHOOSE j \in NewTail :
      DriverNew[j + 1].shadowView.tag = DriverOld[i + 1].shadowView.tag

\* `sub` stands in `list` as one contiguous run.
IsRunOf(sub, list) ==
    \E start \in 0..(Len(list) - Len(sub)) :
      \A k \in 1..Len(sub) : list[start + k] = sub[k]

\* C22: for an old child at an index >= L whose tag stage 2 inserted, the
\* driver recurses into (slice(old node), slice(new node)), under the new
\* view, if and only if the old and the new view differ.  With equal views
\* the list holds no Remove, Delete or Update of a view below the child in
\* the old tree and no Create, Insert or Update of a view below the child in
\* the new tree, whatever these descendants are.  In both cases no Create of
\* the child is emitted.
C22_ReinsertedChild ==
    Diffed =>
      \A i \in ReinsertedOld :
        LET oldChildPair == DriverOld[i + 1]
            newChildPair == DriverNew[NewIndexOf(i) + 1]
            X == oldChildPair.shadowView.tag
        IN /\ oldChildPair.shadowView # newChildPair.shadowView =>
                IsRunOf(calculateShadowViewMutations(
                          newChildPair.shadowView,
                          sliceChildShadowNodeViewPairs(oldChildPair.shadowNode),
                          sliceChildShadowNodeViewPairs(newChildPair.shadowNode)),
                        DriverBlock)
           /\ oldChildPair.shadowView = newChildPair.shadowView =>
                /\ \A D \in HostDescendants(OldHost, X) :
                     /\ PositionsOf("Remove", D) = {}
                     /\ PositionsOf("Delete", D) = {}
                     /\ PositionsOf("Update", D) = {}
                /\ \A D \in HostDescendants(NewHost, X) :
                     /\ PositionsOf("Create", D) = {}
                     /\ PositionsOf("Insert", D) = {}
                     /\ PositionsOf("Update", D) = {}
                /\ \A k \in Positions :
                     CarriesIndex(mutations[k]) =>
                       mutations[k].parentShadowView.tag # X
           /\ PositionsOf("Create", X) = {}

\* C22 witness: a reinserted child whose view is unchanged and whose
\* children in the old tree are not its children in the new tree.
C22_Witness ==
    /\ Diffed
    /\ \E i \in ReinsertedOld :
         LET X == DriverOld[i + 1].shadowView.tag IN
         /\ DriverOld[i + 1].shadowView = DriverNew[NewIndexOf(i) + 1].shadowView
         /\ HostChildren(OldHost, X) # HostChildren(NewHost, X)
         /\ PositionsOf("Remove", X) # {}
         /\ PositionsOf("Insert", X) # {}

\* A reinserted child whose view changed and whose recursion emits mutations.
C22_RecursionWitness ==
    /\ Diffed
    /\ \E i \in ReinsertedOld :
         /\ DriverOld[i + 1].shadowView # DriverNew[NewIndexOf(i) + 1].shadowView
         /\ \E k \in Positions :
              /\ CarriesIndex(mutations[k])
              /\ mutations[k].parentShadowView
                   = DriverNew[NewIndexOf(i) + 1].shadowView

-----------------------------------------------------------------------------
(* The order of the siblings a driver call processes. *)

\* The lists the roots overload slices, before the driver reorders them.
SlicedOld == sliceChildShadowNodeViewPairs(oldRootShadowNode)
SlicedNew == sliceChildShadowNodeViewPairs(newRootShadowNode)

\* The position (from 0) element k of `pairs` has once the list is sorted
\* ascending by orderIndex with elements of equal orderIndex kept in their
\* order: the number of elements that then stand before it.
SortedPosition(pairs, k) ==
    Cardinality({q \in 1..Len(pairs) :
                   \/ pairs[q].shadowNode.orderIndex
                        < pairs[k].shadowNode.orderIndex
                   \/ /\ pairs[q].shadowNode.orderIndex
                           = pairs[k].shadowNode.orderIndex
                      /\ q < k})

\* `processed` is `pairs` in that sorted order.
IsStablySorted(processed, pairs) ==
    /\ Len(processed) = Len(pairs)
    /\ \A k \in 1..Len(pairs) :
         processed[SortedPosition(pairs, k) + 1] = pairs[k]

AllOrderIndexZero(pairs) ==
    \A k \in 1..Len(pairs) : pairs[k].shadowNode.orderIndex = 0

\* The index a mutation of this level carries is the sorted position of the
\* view it names.
CarriesSortedPosition(m) ==
    CASE m.type = "Remove" ->
           \E k \in 1..Len(SlicedOld) :
             /\ SlicedOld[k].shadowView = m.oldChildShadowView
             /\ m.index = SortedPosition(SlicedOld, k)
      [] m.type = "Insert" ->
           \E k \in 1..Len(SlicedNew) :
             /\ SlicedNew[k].shadowView = m.newChildShadowView
             /\ m.index = SortedPosition(SlicedNew, k)
      [] m.type = "Update" ->
           /\ \E k \in 1..Len(SlicedOld) :
                /\ SlicedOld[k].shadowView = m.oldChildShadowView
                /\ m.index = SortedPosition(SlicedOld, k)
           /\ \E k \in 1..Len(SlicedNew) :
                /\ SlicedNew[k].shadowView = m.newChildShadowView
                /\ m.index = SortedPosition(SlicedNew, k)

\* C23: the sibling list a driver call processes is the sliced list sorted
\* ascending by orderIndex, elements of equal orderIndex in their sliced
\* order; a list whose orderIndex are all zero, or of fewer than two
\* elements, is processed in source order; the indices of this call's
\* Update, Remove and Insert mutations are positions in the sorted list.
C23_SiblingReorder ==
    Diffed =>
      /\ IsStablySorted(DriverOld, SlicedOld)
      /\ IsStablySorted(DriverNew, SlicedNew)
      /\ (AllOrderIndexZero(SlicedOld) \/ Len(SlicedOld) < 2)
           => DriverOld = SlicedOld
      /\ (AllOrderIndexZero(SlicedNew) \/ Len(SlicedNew) < 2)
           => DriverNew = SlicedNew
      /\ \A i \in 1..Len(DriverBlock) :
           (CarriesIndex(DriverBlock[i]) /\ OfThisLevel(DriverBlock[i]))
             => CarriesSortedPosition(DriverBlock[i])

\* C23 witness: three old siblings of which the sort moves the first behind
\* two of equal orderIndex, and a Remove that carries the sorted position of
\* the moved one.
C23_Witness ==
    /\ Diffed
    /\ Len(SlicedOld) = 3
    /\ SortedPosition(SlicedOld, 1) = 2
    /\ SlicedOld[2].shadowNode.orderIndex = SlicedOld[3].shadowNode.orderIndex
    /\ \E i \in 1..Len(DriverBlock) :
         /\ DriverBlock[i] = RemoveMutation(DriverParent,
                                            SlicedOld[1].shadowView, 2)
    /\ \E i \in 1..Len(DriverBlock) :
         /\ DriverBlock[i].type = "Insert"
         /\ OfThisLevel(DriverBlock[i])

-----------------------------------------------------------------------------
(* The frame origins of the sliced views. *)

\* The trees sliced for their origins: every node below the root forms a
\* stacking context, only a view, or no view.  Frame origins are points of
\* one coordinate and the node of tag t has origin 2^(t - 1), so that a sum
\* of origins tells which nodes it was taken over.
OffsetAttrs == Attrs({0}, {0}, {StackingView, FlattenedView, NoView}, {0})
OffsetRootAttrs == Attrs({0}, {0}, {StackingView, NoView}, {0})

RECURSIVE WithOrigins(_)
WithOrigins(node) ==
    [node EXCEPT
       !.origin = 2 ^ (node.tag - 1),
       !.children = [k \in 1..Len(node.children) |->
                       WithOrigins(node.children[k])]]

OffsetTrees ==
    {WithOrigins(node) :
       node \in Trees(MaxTag, OffsetAttrs, OffsetRootAttrs, TRUE)}

InitOffsets ==
    /\ slicedShadowNode \in OffsetTrees
    /\ slicedPairList = <<>>
    /\ sliced = FALSE
    /\ DiffIdle
    /\ RegistryIdle
    /\ HandlerIdle
    /\ TinyMapIdle

SpecOffsets == InitOffsets /\ [][NextSlice]_vars

\* The tags of the proper descendants of a node.
RECURSIVE TagsBelow(_)
TagsBelow(node) ==
    UNION {{node.children[k].tag} \cup TagsBelow(node.children[k]) :
             k \in 1..Len(node.children)}

\* The nodes strictly between `node` and its descendant tagged `tag`, from
\* the child of `node` down.
RECURSIVE NodesBetween(_, _)
NodesBetween(node, tag) ==
    IF \E k \in 1..Len(node.children) : node.children[k].tag = tag
      THEN <<>>
      ELSE LET k == CHOOSE q \in 1..Len(node.children) :
                      tag \in TagsBelow(node.children[q])
           IN <<node.children[k]>> \o NodesBetween(node.children[k], tag)

\* The sum of the own frame origins of a list of nodes.
RECURSIVE SumOfOrigins(_)
SumOfOrigins(nodes) ==
    IF Len(nodes) = 0 THEN 0
    ELSE nodes[1].origin + SumOfOrigins(Tail(nodes))

\* C24: for every pair sliceChildShadowNodeViewPairs(N) emits for a
\* descendant D, the origin of the emitted view is D's own origin plus the
\* sum of the own origins of the nodes strictly between N and D, all of
\* which form no stacking context; N's own origin is not added, and a
\* direct child of N keeps its own origin.
C24_FlatteningOffsets ==
    sliced =>
      \A k \in 1..Len(slicedPairList) :
        LET D == slicedPairList[k].shadowNode
            between == NodesBetween(slicedShadowNode, D.tag)
        IN /\ slicedPairList[k].shadowView.origin
                = D.origin + SumOfOrigins(between)
           /\ \A q \in 1..Len(between) : ~between[q].formsStackingContext
           /\ Len(between) = 0
                => slicedPairList[k].shadowView.origin = D.origin

\* C24 witness: a list with a direct child of N and with a descendant that
\* has two nodes between N and itself.
C24_Witness ==
    /\ sliced
    /\ slicedShadowNode.origin # 0
    /\ \E i, j \in 1..Len(slicedPairList) :
         /\ Len(NodesBetween(slicedShadowNode,
                             slicedPairList[i].shadowNode.tag)) = 0
         /\ Len(NodesBetween(slicedShadowNode,
                             slicedPairList[j].shadowNode.tag)) = 2
         /\ slicedPairList[j].shadowView.origin
              > slicedPairList[j].shadowNode.origin + 1

-----------------------------------------------------------------------------
(* A callback that reenters the registry. *)

\* The callback of thread t has called add or remove and waits for the lock.
Reentered(t) == call[t].pc = "callback" /\ call[t].inner.pc = "waiting"

\* C25: reentering the registry from a callback deadlocks.  Once the
\* callback of a visit or an enumerate has called add or remove on the same
\* registry, the inner call never acquires the exclusive lock and the outer
\* call never returns: the thread stays where it is, holding the shared
\* lock, in every later state.
C25_ReentryDeadlocks ==
    /\ [](\A t \in Threads :
            Reentered(t) => /\ t \in mutex.shared
                            /\ mutex.exclusive # t
                            /\ call[t].op \in {"visit", "enumerate"})
    /\ [][\A t \in Threads : Reentered(t) => Reentered(t)']_vars

\* C25 witness: the callback of an enumerate waits in add while the other
\* thread, which came for the exclusive lock after it, waits as well.
C25_Witness ==
    \E t, u \in Threads :
      /\ t # u
      /\ Reentered(t)
      /\ call[t].op = "enumerate"
      /\ call[t].inner.op = "add"
      /\ call[u].pc = "waiting"
      /\ call[u].op = "remove"

-----------------------------------------------------------------------------
(* One TinyMap<Tag, ShadowViewNodePair const *> used under its contract:    *)
(* insert with distinct keys that are not 0, erase on the iterator a find   *)
(* just returned, no insert or erase during an iteration.                   *)

\* Keys are 1..MaxKey.
MaxKey == 3
\* Values, the pointers into newChildPairs, are 1..MaxValue.
MaxValue == 2

Keys == 1..MaxKey
Values == 1..MaxValue

NotFound == [key |-> 0, iterator |-> TinyMapEnd]
NoWalk == [status |-> "none", iterator |-> TinyMapEnd, visited |-> <<>>]
Walking == walk.status = "walking"

otherThanTinyMapVars == <<diffVars, sliceVars, registryVars, handlerVars>>

InitTinyMap ==
    /\ tinyMap = TinyMapEmpty
    /\ live = [k \in Keys |-> 0]
    /\ everInserted = {}
    /\ found = NotFound
    /\ walk = NoWalk
    /\ DiffIdle
    /\ SliceIdle
    /\ RegistryIdle
    /\ HandlerIdle

\* insertedPairs.insert({key, value}); push_back leaves no iterator valid.
Insert(key, value) ==
    /\ ~Walking
    /\ key \notin everInserted
    /\ tinyMap' = TinyMapInsert(tinyMap, key, value)
    /\ live' = [live EXCEPT ![key] = value]
    /\ everInserted' = everInserted \cup {key}
    /\ found' = NotFound
    /\ walk' = NoWalk
    /\ UNCHANGED otherThanTinyMapVars

\* auto const it = insertedPairs.find(key);
Find(key) ==
    /\ found' = [key |-> key, iterator |-> TinyMapFind(tinyMap, key)]
    /\ UNCHANGED <<tinyMap, live, everInserted, walk>>
    /\ UNCHANGED otherThanTinyMapVars

\* insertedPairs.erase(it), it being what the last find returned, not end().
Erase ==
    /\ ~Walking
    /\ found.iterator # TinyMapEnd
    /\ tinyMap' = TinyMapErase(tinyMap, found.iterator)
    /\ live' = [live EXCEPT ![found.key] = 0]
    /\ found' = NotFound
    /\ walk' = NoWalk
    /\ UNCHANGED everInserted
    /\ UNCHANGED otherThanTinyMapVars

\* auto it = insertedPairs.begin();
WalkBegin ==
    /\ ~Walking
    /\ walk' = [status |-> "walking", iterator |-> TinyMapBegin(tinyMap),
                visited |-> <<>>]
    /\ UNCHANGED <<tinyMap, live, everInserted, found>>
    /\ UNCHANGED otherThanTinyMapVars

\* if (it == insertedPairs.end()) the walk is over; else *it is visited and
\* ++it.  An iterator behind the last item is not end(): reading it is
\* undefined, the read yields any pair or the program stops.
WalkNext ==
    /\ Walking
    /\ IF walk.iterator = TinyMapEnd
         THEN walk' = [walk EXCEPT !.status = "done"]
         ELSE IF walk.iterator <= Len(tinyMap)
           THEN walk' = [walk EXCEPT
                           !.visited = Append(@, tinyMap[walk.iterator]),
                           !.iterator = @ + 1]
           ELSE \/ walk' = [walk EXCEPT !.status = "stopped"]
                \/ \E first \in 0..MaxKey, second \in 0..MaxValue :
                     walk' = [walk EXCEPT
                                !.status = "undefined",
                                !.visited = Append(@, [first |-> first,
                                                       second |-> second])]
    /\ UNCHANGED <<tinyMap, live, everInserted, found>>
    /\ UNCHANGED otherThanTinyMapVars

NextTinyMap ==
    \/ \E key \in Keys, value \in Values : Insert(key, value)
    \/ \E key \in Keys : Find(key)
    \/ Erase
    \/ WalkBegin
    \/ WalkNext

SpecTinyMap == InitTinyMap /\ [][NextTinyMap]_vars

\* What find(key) returns on a vector, as a map sees it: the entry with
\* this key and this value, or nothing.
FindsEntry(vector, key, value) ==
    /\ TinyMapFind(vector, key) # TinyMapEnd
    /\ vector[TinyMapFind(vector, key)] = [first |-> key, second |-> value]
FindsNothing(vector, key) == TinyMapFind(vector, key) = TinyMapEnd

\* A step of erase: the vector changes and keeps its length.
EraseStep == tinyMap' # tinyMap /\ Len(tinyMap') = Len(tinyMap)

\* C26: TinyMap behaves as a map under its usage contract.  After any
\* sequence of inserts with distinct keys that are not 0 and of erases of
\* found keys, find(k) returns the entry inserted with k if and only if k
\* was inserted and not erased since, and the end sentinel otherwise; an
\* erase changes the result of find for no other key.
C26_TinyMapIsMap ==
    /\ [](\A k \in Keys :
            IF live[k] # 0 THEN FindsEntry(tinyMap, k, live[k])
                           ELSE FindsNothing(tinyMap, k))
    /\ [](found # NotFound =>
            IF live[found.key] # 0
              THEN /\ found.iterator # TinyMapEnd
                   /\ tinyMap[found.iterator]
                        = [first |-> found.key, second |-> live[found.key]]
              ELSE found.iterator = TinyMapEnd)
    /\ [][EraseStep =>
            \A k \in Keys \ {found.key} :
              TinyMapFind(tinyMap', k) = TinyMapFind(tinyMap, k)]_vars

\* C26 witness: of three keys inserted the second was erased; a find of
\* the erased key returned end() and the two other keys are found.
C26_Witness ==
    /\ Len(tinyMap) = 3
    /\ tinyMap[2].first = 0
    /\ found.key \in everInserted
    /\ live[found.key] = 0
    /\ found.iterator = TinyMapEnd
    /\ \E k1, k3 \in Keys :
         /\ k1 # k3
         /\ live[k1] # 0 /\ TinyMapFind(tinyMap, k1) = 1
         /\ live[k3] # 0 /\ TinyMapFind(tinyMap, k3) = 3

\* C28 (as claimed): a walk from begin() to end() reaches end(), and the
\* entries it visits are exactly the live ones, each once, never an entry
\* whose key is 0.
C28_Iteration ==
    /\ walk.status \notin {"stopped", "undefined"}
    /\ \A i \in 1..Len(walk.visited) :
         /\ walk.visited[i].first # 0
         /\ walk.visited[i].first \in Keys
         /\ live[walk.visited[i].first] = walk.visited[i].second
         /\ \A j \in 1..Len(walk.visited) :
              walk.visited[j].first = walk.visited[i].first => i = j
    /\ walk.status = "done" =>
         \A k \in Keys :
           live[k] # 0 =>
             \E i \in 1..Len(walk.visited) : walk.visited[i].first = k

\* The part of C28 the code keeps: while the walk is inside the vector it
\* visits the items in insertion order, erased ones included.
WalkVisitsItemsInOrder ==
    walk.status = "walking" =>
      /\ walk.iterator = Len(walk.visited) + 1
      /\ \A i \in 1..Len(walk.visited) : walk.visited[i] = tinyMap[i]

-----------------------------------------------------------------------------
(* add on a surfaceId that is registered. *)

\* The step of add that emplaces, and the step of visit that looks up.
AddStep(t) ==
    call[t].op = "add" /\ call[t].pc = "locked" /\ call'[t].pc = "returned"
VisitLookup(t) ==
    call[t].op = "visit" /\ call[t].pc = "locked" /\ call'[t] # call[t]

\* C27: add(tree) on a registry that holds an entry for the surfaceId of
\* the tree leaves the mapping as it is: the earlier tree stays registered
\* and is the tree a visit of that surfaceId hands to its callback; in
\* every reachable state the registry holds at most one entry per
\* surfaceId.
C27_AddOnOccupied ==
    /\ [](\A s, r \in SurfaceIds :
            /\ RegistryFound(s) => registry[s].surfaceId = s
            /\ (RegistryFound(s) /\ RegistryFound(r)
                  /\ registry[s].surfaceId = registry[r].surfaceId)
                 => s = r)
    /\ [][\A t \in Threads :
            /\ (AddStep(t) /\ RegistryFound(call[t].surfaceId)) =>
                 /\ registry' = registry
                 /\ registry'[call[t].surfaceId] # call[t].shadowTree
            /\ (AddStep(t) /\ ~RegistryFound(call[t].surfaceId)) =>
                 registry' = [registry EXCEPT
                                ![call[t].surfaceId] = call[t].shadowTree]
            /\ (VisitLookup(t) /\ RegistryFound(call[t].surfaceId)) =>
                 call'[t].invoked
                   = <<[shadowTree |-> registry[call[t].surfaceId],
                        stop |-> FALSE]>>]_vars

\* C27 witness: two trees were constructed for one surfaceId; the add of
\* the second returned and the registry holds the first, which a visit by
\* the other thread was handed.
C27_Witness ==
    \E t, u \in Threads, s \in SurfaceIds :
      /\ nextTree = 3
      /\ call[t].op = "add" /\ call[t].pc = "returned"
      /\ call[t].shadowTree = ShadowTree(2, s)
      /\ registry[s] = ShadowTree(1, s)
      /\ call[u].op = "visit" /\ call[u].returned = "true"
      /\ call[u].invoked = <<[shadowTree |-> ShadowTree(1, s),
                              stop |-> FALSE]>>

=============================================================================
